---- MODULE Spec2Model ----
(***************************************************************************)
(* State-machine model of the agent orchestration core:                    *)
(*   - AgentWorkflow / SagaContext  (workflows/agent_saga.py)              *)
(*   - MAN Mode activities          (activities/man_mode.py)               *)
(*   - policy engine and sweeps     (models/man_mode.py)                   *)
(*   - database provider            (providers/database/*.py)              *)
(*                                                                         *)
(* The workflow body is single-threaded and cooperative: code between two  *)
(* suspension points (an activity call or a wait_condition) runs           *)
(* atomically, so each action below is one such segment.  Signal and       *)
(* update handlers run between segments.                                   *)
(*                                                                         *)
(* The MAN Mode helpers (_get_tenant_id, _get_workflow_key,                *)
(* _extract_step_flags, _wait_for_man_decision) and the signal and update  *)
(* handlers are written inside the body of class SagaContext, while        *)
(* their callers (AgentWorkflow._execute_single_step, main.py) address     *)
(* them on AgentWorkflow and their bodies read only AgentWorkflow fields.  *)
(* man_methods_on says which class carries them in a run:                  *)
(*   "SagaContext"   as the file stands: self._get_tenant_id() at line 703 *)
(*                   raises AttributeError in every step and the workflow  *)
(*                   class has no signal or update handler;                *)
(*   "AgentWorkflow" the same methods in the class their callers look      *)
(*                   for them in.                                          *)
(* A safety property checked here holds of both.                           *)
(***************************************************************************)
EXTENDS Naturals, Integers, Sequences, FiniteSets, TLC

\* ------------------------------------------------------------------------
\* Bounds of the model
\* ------------------------------------------------------------------------
MaxDeliveries == 2
MaxCreateCalls == 2
MaxResolveCalls == 2
MaxTime == 2

\* ------------------------------------------------------------------------
\* Generic helpers
\* ------------------------------------------------------------------------
Range(f) == {f[i] : i \in DOMAIN f}

Max2(a, b) == IF a >= b THEN a ELSE b

Min2(a, b) == IF a <= b THEN a ELSE b

RECURSIVE SetMax(_)
SetMax(S) == IF S = {} THEN 0
             ELSE LET x == CHOOSE y \in S : TRUE
                  IN  Max2(x, SetMax(S \ {x}))

\* Python's `sub in s` on strings
Contains(s, sub) ==
    \E i \in 1..(Len(s) + 1 - Len(sub)) : SubSeq(s, i, i + Len(sub) - 1) = sub

\* reversed(list)
Reversed(seq) == [i \in 1..Len(seq) |-> seq[Len(seq) + 1 - i]]

\* index of the first element of seq satisfying membership in S, 0 if none
FirstIn(seq, S) ==
    IF \E i \in 1..Len(seq) : seq[i] \in S
    THEN CHOOSE i \in 1..Len(seq) : seq[i] \in S /\ \A j \in 1..(i - 1) : seq[j] \notin S
    ELSE 0

\* ------------------------------------------------------------------------
\* Python dicts with string keys: a sequence of <<key, value>> pairs in
\* insertion order, keys distinct.
\* ------------------------------------------------------------------------
DictKeys(d) == {d[i][1] : i \in DOMAIN d}

DictGet(d, k, default) ==
    IF k \in DictKeys(d)
    THEN (d[CHOOSE i \in DOMAIN d : d[i][1] = k])[2]
    ELSE default

\* d[k] = v : an existing key keeps its position, a new key goes last
DictSet(d, k, v) ==
    IF k \in DictKeys(d)
    THEN [i \in DOMAIN d |-> IF d[i][1] = k THEN <<k, v>> ELSE d[i]]
    ELSE Append(d, <<k, v>>)

\* d.update(u)
RECURSIVE DictUpdate(_, _)
DictUpdate(d, u) ==
    IF u = <<>> THEN d
    ELSE DictUpdate(DictSet(d, Head(u)[1], Head(u)[2]), Tail(u))

\* equality of dicts as mappings (Python ==)
DictEq(d1, d2) == Range(d1) = Range(d2)

\* The parameter keys of the model in sorted (code point) order, used by
\* json.dumps(..., sort_keys=True).
KeyOrder == <<"API_KEY", "Password", "api_key", "auth_token", "id", "monkey", "soft", "to">>

\* the upper-case letters and their lower-case forms
LowerCaseOf ==
    [A |-> "a", B |-> "b", C |-> "c", D |-> "d", E |-> "e", F |-> "f", G |-> "g",
     H |-> "h", I |-> "i", J |-> "j", K |-> "k", L |-> "l", M |-> "m", N |-> "n",
     O |-> "o", P |-> "p", Q |-> "q", R |-> "r", S |-> "s", T |-> "t", U |-> "u",
     V |-> "v", W |-> "w", X |-> "x", Y |-> "y", Z |-> "z"]

\* str.lower() of one character
LowerChar(c) == IF c \in DOMAIN LowerCaseOf THEN LowerCaseOf[c] ELSE c

\* key.lower()
RECURSIVE Lower(_)
Lower(k) ==
    IF k = "" THEN ""
    ELSE LowerChar(SubSeq(k, 1, 1)) \o Lower(SubSeq(k, 2, Len(k)))

RECURSIVE JsonItems(_, _)
JsonItems(d, ks) ==
    IF ks = <<>> THEN ""
    ELSE LET k    == Head(ks)
             rest == JsonItems(d, Tail(ks))
         IN  IF k \in DictKeys(d)
             THEN "\"" \o k \o "\": \"" \o DictGet(d, k, "") \o "\""
                  \o (IF rest = "" THEN "" ELSE ", " \o rest)
             ELSE rest

\* json.dumps(d) without sort_keys: the items in insertion order
RECURSIVE JsonItemsInOrder(_)
JsonItemsInOrder(d) ==
    IF d = <<>> THEN ""
    ELSE "\"" \o Head(d)[1] \o "\": \"" \o Head(d)[2] \o "\""
         \o (IF Len(d) > 1 THEN ", " ELSE "") \o JsonItemsInOrder(Tail(d))

JsonDumpsInsertionOrder(d) == "{" \o JsonItemsInOrder(d) \o "}"

\* json.dumps(d, sort_keys=True) of a dict of strings
JsonDumpsSorted(d) == "{" \o JsonItems(d, KeyOrder) \o "}"

RECURSIVE KeyList(_)
KeyList(d) ==
    IF d = <<>> THEN ""
    ELSE "'" \o Head(d)[1] \o "'" \o (IF Len(d) > 1 THEN ", " ELSE "") \o KeyList(Tail(d))

\* str(d.keys())
DictKeysStr(d) == "dict_keys([" \o KeyList(d) \o "])"

\* ------------------------------------------------------------------------
\* ActionIntent (models/man_mode.py)
\* ------------------------------------------------------------------------
SensitiveKeys == {"password", "token", "secret", "key", "api_key", "auth"}

\* a redaction that knows the sensitive names only as whole keys
redact_exact_keys(v) ==
    [i \in DOMAIN v |->
        IF Lower(v[i][1]) \in SensitiveKeys
        THEN <<v[i][1], "[REDACTED]">>
        ELSE v[i]]

\* ActionIntent.redact_sensitive_params
redact_sensitive_params(v) ==
    [i \in DOMAIN v |->
        IF \E sensitive \in SensitiveKeys : Contains(Lower(v[i][1]), sensitive)
        THEN <<v[i][1], "[REDACTED]">>
        ELSE v[i]]

\* ActionIntent(...): the field validator runs on construction
ActionIntent(tenant, workflow, run, step, tool, params, flags) ==
    [tenant_id   |-> tenant,
     workflow_id |-> workflow,
     run_id      |-> run,
     step_id     |-> step,
     tool_name   |-> tool,
     tool_params |-> redact_sensitive_params(params),
     flags       |-> flags]

\* ------------------------------------------------------------------------
\* ManPolicy and ManPolicyEngine (models/man_mode.py).  Scores and
\* thresholds are in hundredths.
\* ------------------------------------------------------------------------
\* ManPolicy(): the field defaults
DEFAULT_MAN_POLICY ==
    [global_thresholds      |-> <<<<"red", 80>>, <<"yellow", 50>>>>,
     tool_minimum_lanes     |-> <<>>,
     hard_triggers          |-> [tools |-> {}, params |-> <<>>, workflows |-> {}],
     per_workflow_overrides |-> <<>>,
     max_pending_per_tenant |-> 50,
     task_ttl_minutes       |-> 1440,
     degrade_behavior       |-> "BLOCK_NEW"]

NoOverride == [thresholds |-> <<>>, tool_minimum_lanes |-> <<>>]

\* workflow_key is "" for None / empty (falsy)
get_effective_thresholds(policy, workflow_key) ==
    IF workflow_key # "" /\ workflow_key \in DictKeys(policy.per_workflow_overrides)
    THEN DictUpdate(policy.global_thresholds,
                    DictGet(policy.per_workflow_overrides, workflow_key, NoOverride).thresholds)
    ELSE policy.global_thresholds

\* "NONE" stands for None
get_minimum_lane(policy, tool_name, workflow_key) ==
    LET ov == DictGet(policy.per_workflow_overrides, workflow_key, NoOverride)
    IN  IF workflow_key # "" /\ workflow_key \in DictKeys(policy.per_workflow_overrides)
           /\ tool_name \in DictKeys(ov.tool_minimum_lanes)
        THEN DictGet(ov.tool_minimum_lanes, tool_name, "NONE")
        ELSE DictGet(policy.tool_minimum_lanes, tool_name, "NONE")

check_hard_triggers(policy, intent, workflow_key) ==
    LET triggers == policy.hard_triggers
    IN  \/ intent.tool_name \in triggers.tools
        \/ \E i \in DOMAIN triggers.params :
              /\ triggers.params[i][1] \in DictKeys(intent.tool_params)
              /\ \E trigger \in triggers.params[i][2] :
                    Contains(DictGet(intent.tool_params, triggers.params[i][1], ""), trigger)
        \/ (workflow_key # "" /\ workflow_key \in triggers.workflows)

subjective_patterns ==
    {"exception", "vulnerability", "risk", "danger", "warning",
     "critical", "emergency", "urgent", "suspicious", "anomaly"}

RECURSIVE JoinSpace(_)
JoinSpace(texts) ==
    IF texts = <<>> THEN ""
    ELSE IF Len(texts) = 1 THEN Head(texts)
    ELSE Head(texts) \o " " \o JoinSpace(Tail(texts))

\* the dimensions dict, in insertion order
evaluate_risk_dimensions(intent, free_text_signals) ==
    LET text_to_check == free_text_signals
                         \o [i \in DOMAIN intent.tool_params |-> intent.tool_params[i][2]]
        text_combined == JoinSpace(text_to_check)
        subjectivity  == Cardinality({p \in subjective_patterns : Contains(text_combined, p)})
        uncertainty   == (IF intent.tool_params = <<>> THEN 30 ELSE 0)
                         + (IF intent.step_id = "" THEN 20 ELSE 0)
    IN  (IF intent.flags.affects_rights THEN <<<<"affects_rights", 100>>>> ELSE <<>>)
        \o (IF intent.flags.contains_sensitive_data
            THEN <<<<"contains_sensitive_data", 90>>>> ELSE <<>>)
        \o (IF intent.flags.irreversible THEN <<<<"irreversible", 80>>>> ELSE <<>>)
        \o (IF subjectivity > 0
            THEN <<<<"subjective_language", Min2(subjectivity * 20, 100)>>>> ELSE <<>>)
        \o (IF uncertainty > 0 THEN <<<<"missing_fields", uncertainty>>>> ELSE <<>>)

RiskTriageResult(lane, score, reasons) ==
    [lane |-> lane, risk_score |-> score, reasons |-> reasons]

\* ManPolicyEngine.triage_intent
triage_intent(policy, intent, workflow_key, free_text_signals) ==
    IF check_hard_triggers(policy, intent, workflow_key)
    THEN RiskTriageResult("RED", 100, <<<<"Hard trigger activated", 0>>>>)
    ELSE
    LET dimensions == evaluate_risk_dimensions(intent, free_text_signals)
        score0     == SetMax({dimensions[i][2] : i \in DOMAIN dimensions})
        reasons0   == dimensions
        min_lane   == get_minimum_lane(policy, intent.tool_name, workflow_key)
        reasons    == IF min_lane # "NONE"
                      THEN Append(reasons0,
                                  <<"Tool " \o intent.tool_name
                                    \o " requires minimum " \o min_lane, 0>>)
                      ELSE reasons0
        score      == IF min_lane = "YELLOW" /\ score0 < 50 THEN 50 ELSE score0
        thresholds == get_effective_thresholds(policy, workflow_key)
    IN  IF min_lane = "RED"
        THEN RiskTriageResult("RED", Max2(score0, 80), reasons)
        ELSE IF score >= DictGet(thresholds, "red", 80)
             THEN RiskTriageResult("RED", score, reasons)
        ELSE IF score >= DictGet(thresholds, "yellow", 50)
             THEN RiskTriageResult("YELLOW", score, reasons)
        ELSE RiskTriageResult("GREEN", score, reasons)

\* ------------------------------------------------------------------------
\* State
\* ------------------------------------------------------------------------
VARIABLES
    \* AgentWorkflow fields (agent_saga.py, __init__)
    events,                 \* self.events
    plan_id,                \* self.plan_id
    plan_steps,             \* self.plan_steps
    step_results,           \* keys of self.step_results
    failed_step_id,         \* self.failed_step_id
    workflow_paused,        \* self.workflow_paused
    workflow_cancelled,     \* self.workflow_cancelled
    force_man_mode_all,     \* self.force_man_mode_all
    force_man_mode_steps,   \* self.force_man_mode_steps
    pending_man_decisions,  \* self.pending_man_decisions (dict task_id -> payload)
    \* SagaContext fields
    compensation_stack,     \* saga.compensation_stack
    rollback_executed,      \* saga.rollback_executed
    \* locals of run / _execute_plan / rollback that live across suspensions
    wpc,                    \* position of the run coroutine
    ready_queue,            \* ready_queue of the current frontier
    in_degree,              \* in_degree
    executed,               \* executed
    level,                  \* level
    rb_done,                \* compensations finished by the rollback loop
    compensation_results,   \* results of rollback
    workflow_result,        \* what run returns / raises with
    \* locals of each _execute_single_step coroutine
    spc,                    \* position of the step coroutine
    task_id,                \* task_id (0 for None)
    step_outcome,           \* the exception gather collected for the step
    \* what the durable executor has been asked to run
    tool_calls,             \* step -> inputs its tool activity was started with
    comp_calls,             \* step ids of the compensation activities started
    step_level,             \* frontier number at which the step was launched
    applied_decision,       \* decision type _wait_for_man_decision read
    delivered,              \* signals and updates delivered to the run so far
    submitted,              \* the submit_man_decision deliveries, in order
    \* module state of models/man_mode.py
    engine_policy,          \* _policy_engine.policy
    man_methods_on,         \* class that carries the MAN Mode methods
    \* the store
    man_tasks,              \* table man_tasks, row i has id i
    now,                    \* time.time()
    \* callers of the activities and of the sweep (store-level runs)
    create_returns,         \* what each create_man_task call got back
    resolvers,              \* resolve_man_task calls in progress or returned
    sweep,                  \* cleanup_expired_tasks call
    triage_calls,           \* risk_triage calls returned: inputs and result
    backlog_calls,          \* backlog_check calls returned: inputs and result
    \* the policy table and the module's cache (models/man_mode.py)
    man_policies,           \* table man_policies, in insertion order
    policy_cache,           \* _policy_cache
    policy_loads,           \* load_policy_with_cache calls in progress or returned
    \* callers of the HTTP endpoint and of SagaContext.rollback
    api_calls,              \* POST /api/v1/man/tasks/{id}/decision requests
    rollback_returns        \* what each further rollback call returned

wfVars == <<events, plan_id, plan_steps, step_results, failed_step_id,
            workflow_paused, workflow_cancelled, force_man_mode_all,
            force_man_mode_steps, pending_man_decisions, compensation_stack,
            rollback_executed, wpc, ready_queue, in_degree, executed, level,
            rb_done, compensation_results, workflow_result, spc, task_id,
            step_outcome, tool_calls, comp_calls, step_level, applied_decision,
            delivered, submitted, engine_policy, man_methods_on>>

storeVars == <<man_tasks, now>>

callVars == <<create_returns, resolvers, sweep>>

triageVars == <<triage_calls, backlog_calls>>

policyVars == <<man_policies, policy_cache, policy_loads>>

apiVars == <<api_calls>>

sagaCallVars == <<rollback_returns>>

vars == <<wfVars, storeVars, callVars, triageVars, policyVars, apiVars, sagaCallVars>>

\* ------------------------------------------------------------------------
\* The store: man_tasks through the DatabaseProvider interface
\* ------------------------------------------------------------------------
NoDecision == [decision |-> "NULL", reviewer_id |-> "NULL", modified_params |-> <<>>]

\* ManDecisionPayload as a dict (reason is free text, left out)
ManDecisionPayload(decision, reviewer, modified) ==
    [decision |-> decision, reviewer_id |-> reviewer, modified_params |-> modified]

\* idempotency_key of create_man_task
IdempotencyKey(intent) ==
    intent.tenant_id \o "|" \o intent.workflow_id \o "|" \o intent.step_id \o "|"
    \o intent.tool_name \o "|" \o JsonDumpsSorted(intent.tool_params)

\* an upsert whose record also carries status = "PENDING" (a model_dump
\* without exclude_unset): the conflicting row is put back to PENDING
UpsertResettingStatus(table, record, time) ==
    IF \E i \in DOMAIN table : table[i].idempotency_key = record.idempotency_key
    THEN LET i   == CHOOSE j \in DOMAIN table :
                        table[j].idempotency_key = record.idempotency_key
             row == [table[i] EXCEPT !.run_id = record.run_id, !.status = "PENDING"]
         IN  <<[table EXCEPT ![i] = row], row>>
    ELSE LET row == [id              |-> Len(table) + 1,
                     tenant_id       |-> record.tenant_id,
                     workflow_id     |-> record.workflow_id,
                     run_id          |-> record.run_id,
                     step_id         |-> record.step_id,
                     tool_name       |-> record.tool_name,
                     idempotency_key |-> record.idempotency_key,
                     status          |-> "PENDING",
                     risk_score      |-> record.risk_score,
                     intent          |-> record.intent,
                     reviewer_id     |-> "NULL",
                     decision        |-> [decision |-> "NULL", reviewer_id |-> "NULL",
                                          modified_params |-> <<>>],
                     created_at      |-> time]
         IN  <<Append(table, row), row>>

\* db.upsert(table="man_tasks", record, conflict_columns=["idempotency_key"]):
\* the record holds the fields create_man_task sets (exclude_unset=True);
\* id, status, reviewer_id, decision and created_at are left to the table.
\* Returns <<table', row>>.
UpsertManTask(table, record, time) ==
    IF \E i \in DOMAIN table : table[i].idempotency_key = record.idempotency_key
    THEN LET i   == CHOOSE j \in DOMAIN table :
                        table[j].idempotency_key = record.idempotency_key
             row == [table[i] EXCEPT !.tenant_id   = record.tenant_id,
                                     !.workflow_id = record.workflow_id,
                                     !.run_id      = record.run_id,
                                     !.step_id     = record.step_id,
                                     !.tool_name   = record.tool_name,
                                     !.risk_score  = record.risk_score,
                                     !.intent      = record.intent]
         IN  <<[table EXCEPT ![i] = row], row>>
    ELSE LET row == [id              |-> Len(table) + 1,
                     tenant_id       |-> record.tenant_id,
                     workflow_id     |-> record.workflow_id,
                     run_id          |-> record.run_id,
                     step_id         |-> record.step_id,
                     tool_name       |-> record.tool_name,
                     idempotency_key |-> record.idempotency_key,
                     status          |-> "PENDING",
                     risk_score      |-> record.risk_score,
                     intent          |-> record.intent,
                     reviewer_id     |-> "NULL",
                     decision        |-> NoDecision,
                     created_at      |-> time]
         IN  <<Append(table, row), row>>

\* the ManTask record create_man_task builds and upserts
ManTaskRecord(intent, triage_result) ==
    [tenant_id       |-> intent.tenant_id,
     workflow_id     |-> intent.workflow_id,
     run_id          |-> intent.run_id,
     step_id         |-> intent.step_id,
     tool_name       |-> intent.tool_name,
     idempotency_key |-> IdempotencyKey(intent),
     risk_score      |-> triage_result.risk_score,
     intent          |-> intent.tool_params]

\* create_man_task, the successful path: <<table', created_task>>
create_man_task(table, intent, triage_result, time) ==
    UpsertManTask(table, ManTaskRecord(intent, triage_result), time)

\* status written by resolve_man_task for a decision
StatusOfDecision(decision) ==
    IF decision = "APPROVE" THEN "APPROVED"
    ELSE IF decision = "DENY" THEN "DENIED"
    ELSE IF decision = "MODIFY" THEN "MODIFIED"
    ELSE "CANCELLED"

\* db.update(filters={"id": id, "status": "PENDING"}, updates): <<table', row or NoRow>>
NoRow == [id |-> 0]

\* an update filtered on id alone
UpdateWithoutStatusFilter(table, id, updates) ==
    IF id \in DOMAIN table
    THEN LET row == [table[id] EXCEPT !.status      = updates.status,
                                      !.reviewer_id = updates.reviewer_id,
                                      !.decision    = updates.decision]
         IN  <<[table EXCEPT ![id] = row], row>>
    ELSE <<table, [id |-> 0]>>

UpdateIfPending(table, id, updates) ==
    IF id \in DOMAIN table /\ table[id].status = "PENDING"
    THEN LET row == [table[id] EXCEPT !.status      = updates.status,
                                      !.reviewer_id = updates.reviewer_id,
                                      !.decision    = updates.decision]
         IN  <<[table EXCEPT ![id] = row], row>>
    ELSE <<table, NoRow>>

\* backlog_check: pending rows of the tenant against the engine's policy
PendingCount(table, tenant) ==
    Cardinality({i \in DOMAIN table :
                    table[i].tenant_id = tenant /\ table[i].status = "PENDING"})

\* a check that reports overload only above the limit
backlog_check_above_limit(table, policy, tenant) ==
    LET pending_count == PendingCount(table, tenant)
        overloaded    == pending_count > policy.max_pending_per_tenant
    IN  [overloaded    |-> overloaded,
         pending_count |-> pending_count,
         action        |-> IF overloaded THEN policy.degrade_behavior ELSE "NONE"]

backlog_check(table, policy, tenant) ==
    LET pending_count == PendingCount(table, tenant)
        overloaded    == pending_count >= policy.max_pending_per_tenant
    IN  [overloaded    |-> overloaded,
         pending_count |-> pending_count,
         action        |-> IF overloaded THEN policy.degrade_behavior ELSE "NONE"]

\* ------------------------------------------------------------------------
\* Plans the planner may return (PlanGenerated.steps)
\* ------------------------------------------------------------------------
StepIds == {"a", "b", "c"}

Step(id, tool, input, depends_on, compensation, compensation_input) ==
    [id |-> id, tool |-> tool, input |-> input, depends_on |-> depends_on,
     compensation |-> compensation, compensation_input |-> compensation_input]

\* one RED step with a compensation
PlanSingle ==
    <<Step("a", "delete_record", <<<<"id", "42">>>>, <<>>, "undo_delete", <<>>)>>

\* a step with a compensation, then a dependent step
PlanChain ==
    <<Step("a", "book_flight", <<<<"to", "cdg">>>>, <<>>, "cancel_flight",
           <<<<"booking_id", "{result.booking_id}">>>>),
      Step("b", "send_email", <<<<"to", "ops">>>>, <<"a">>, "", <<>>)>>

\* two independent steps, and a third that depends on the first only
PlanFork ==
    <<Step("a", "update_user", <<<<"id", "42">>>>, <<>>, "revert_user", <<>>),
      Step("b", "book_flight", <<<<"to", "cdg">>>>, <<>>, "cancel_flight",
           <<<<"booking_id", "{result.booking_id}">>>>),
      Step("c", "send_email", <<<<"to", "ops">>>>, <<"a">>, "", <<>>)>>

\* b and c depend on each other
PlanCycle ==
    <<Step("a", "book_flight", <<<<"to", "cdg">>>>, <<>>, "cancel_flight", <<>>),
      Step("b", "send_email", <<<<"to", "ops">>>>, <<"c">>, "", <<>>),
      Step("c", "send_email", <<<<"to", "ops">>>>, <<"b">>, "", <<>>)>>

\* b depends on a step that is not in the plan
PlanMissing ==
    <<Step("a", "book_flight", <<<<"to", "cdg">>>>, <<>>, "cancel_flight", <<>>),
      Step("b", "send_email", <<<<"to", "ops">>>>, <<"zz">>, "", <<>>)>>

PlanSet == {PlanSingle, PlanChain, PlanFork, PlanCycle, PlanMissing}

PlanIds(steps) == {steps[i].id : i \in DOMAIN steps}

StepOf(steps, id) == steps[CHOOSE i \in DOMAIN steps : steps[i].id = id]

\* policies the engine may have been given (get_policy_engine(policy))
StrictBacklogPolicy(degrade) ==
    [DEFAULT_MAN_POLICY EXCEPT !.global_thresholds = <<<<"red", 100>>, <<"yellow", 50>>>>,
                               !.max_pending_per_tenant = 1,
                               !.degrade_behavior = degrade]

EnginePolicySet ==
    {DEFAULT_MAN_POLICY} \cup
    {StrictBacklogPolicy(d) : d \in {"BLOCK_NEW", "FORCE_PAUSE", "AUTO_DENY"}}

\* ------------------------------------------------------------------------
\* AgentWorkflow (workflows/agent_saga.py)
\* ------------------------------------------------------------------------
TenantId == "default_tenant"      \* _get_tenant_id

WorkflowId == "wf1"               \* workflow.info().workflow_id

\* _get_workflow_key: self.plan_id or None
get_workflow_key == plan_id

\* _extract_step_flags: str(params.keys()) is the text "dict_keys([...])"
extract_step_flags(step) ==
    LET param_keys == DictKeysStr(step.input)
    IN  [irreversible |->
            step.tool \in {"send_email", "call_webhook", "create_record", "delete_record"},
         contains_sensitive_data |->
            \E sensitive \in {"password", "secret", "token", "key"} :
                Contains(param_keys, sensitive),
         affects_rights |->
            step.tool \in {"update_user", "delete_user", "change_permissions"}]

StepIntent(s) ==
    LET step == StepOf(plan_steps, s)
    IN  ActionIntent(TenantId, WorkflowId, plan_id, s, step.tool, step.input,
                     extract_step_flags(step))

Event(type, step, input, success, results) ==
    [type |-> type, step_id |-> step, tool_input |-> input, success |-> success,
     compensation_results |-> results]

\* line 451: the continue-as-new threshold
MAX_HISTORY_SIZE == 1000

\* _append_event, lines 900-915: the event goes to the end of the log; at the
\* threshold a warning is logged and the log is kept (line 915 is a comment)
append_event(log, event) == Append(log, event)

HasEvent(type) == \E i \in DOMAIN events : events[i].type = type

HasStepEvent(type, s) ==
    \E i \in DOMAIN events : events[i].type = type /\ events[i].step_id = s

\* a tool input that ignores the operator's decision
ToolInputUnmodified(s, tid, decisions) == StepOf(plan_steps, s).input

\* lines 778-784: the input the tool is called with
ToolInput(s, tid, decisions) ==
    LET original == StepOf(plan_steps, s).input
        decision == DictGet(decisions, tid, NoDecision)
    IN  IF tid # 0 /\ tid \in DictKeys(decisions)
           /\ decision.decision = "MODIFY" /\ decision.modified_params # <<>>
        THEN DictUpdate(original, decision.modified_params)
        ELSE original

\* a tool start that leaves the coroutine where it was
StartToolAndStay(s, tid) ==
    /\ spc' = spc
    /\ events' = append_event(events, Event("ToolCallRequested", s, <<>>, TRUE, <<>>))
    /\ tool_calls' = [tool_calls EXCEPT ![s] = Append(@, <<>>)]
    /\ step_outcome' = step_outcome

\* a tool start whose event records the step's input as planned
StartToolLoggingPlannedInput(s, tid) ==
    LET input == ToolInput(s, tid, pending_man_decisions)
    IN  /\ spc' = [spc EXCEPT ![s] = "tool"]
        /\ events' = append_event(events, Event("ToolCallRequested", s,
                                                StepOf(plan_steps, s).input, TRUE, <<>>))
        /\ tool_calls' = [tool_calls EXCEPT ![s] = Append(@, input)]
        /\ step_outcome' = step_outcome

\* lines 786-805: append ToolCallRequested and start the tool activity
StartTool(s, tid) ==
    LET input == ToolInput(s, tid, pending_man_decisions)
    IN  /\ spc' = [spc EXCEPT ![s] = "tool"]
        /\ events' = append_event(events, Event("ToolCallRequested", s, input, TRUE, <<>>))
        /\ tool_calls' = [tool_calls EXCEPT ![s] = Append(@, input)]
        /\ step_outcome' = step_outcome

\* the step coroutine ends with an exception
FailStep(s, kind) ==
    /\ spc' = [spc EXCEPT ![s] = "failed"]
    /\ step_outcome' = [step_outcome EXCEPT ![s] = kind]
    /\ UNCHANGED <<events, tool_calls>>

\* the step coroutine suspends at another await
MoveStep(s, pc) ==
    /\ spc' = [spc EXCEPT ![s] = pc]
    /\ UNCHANGED <<events, tool_calls, step_outcome>>

\* a wait that returns normally whatever the decision
ApplyDecisionAlwaysProceeds(s, tid) ==
    /\ applied_decision' = [applied_decision EXCEPT ![s] =
                               DictGet(pending_man_decisions, tid, NoDecision).decision]
    /\ StartTool(s, tid)
    /\ UNCHANGED workflow_cancelled

\* _wait_for_man_decision after the wait_condition: lines 237-256
ApplyDecision(s, tid) ==
    LET decision_type == DictGet(pending_man_decisions, tid, NoDecision).decision
    IN  /\ applied_decision' = [applied_decision EXCEPT ![s] = decision_type]
        /\ IF decision_type = "DENY"
           THEN /\ FailStep(s, "Denied")
                /\ UNCHANGED workflow_cancelled
           ELSE IF decision_type = "CANCEL_WORKFLOW"
           THEN /\ FailStep(s, "CancelledByDecision")
                /\ workflow_cancelled' = TRUE
           ELSE /\ StartTool(s, tid)
                /\ UNCHANGED workflow_cancelled

\* ---- SagaContext -------------------------------------------------------
\* str.replace(ch, "") for a one-character ch
RECURSIVE RemoveChar(_, _)
RemoveChar(s, ch) ==
    IF s = "" THEN ""
    ELSE (IF SubSeq(s, 1, 1) = ch THEN "" ELSE SubSeq(s, 1, 1))
         \o RemoveChar(SubSeq(s, 2, Len(s)), ch)

StartsWith(s, prefix) == Len(s) >= Len(prefix) /\ SubSeq(s, 1, Len(prefix)) = prefix

\* _inject_result_values (a value holds "{result." at its start only)
inject_result_values(compensation_input, result) ==
    [i \in DOMAIN compensation_input |->
        LET key   == compensation_input[i][1]
            value == compensation_input[i][2]
        IN  IF StartsWith(value, "{result.")
            THEN LET field_name == RemoveChar(SubSeq(value, 9, Len(value)), "}")
                 IN  <<key, DictGet(result, field_name, value)>>
            ELSE <<key, value>>]

\* what a tool activity returns
ToolResult(tool) ==
    IF tool = "book_flight" THEN <<<<"booking_id", "bk-9">>>> ELSE <<<<"ok", "yes">>>>

CompensationStep(activity_name, input, step_id) ==
    [activity_name |-> activity_name, input |-> input, step_id |-> step_id]

\* a success that registers nothing
RegisterNothing(stack, step, result) == stack

\* execute_with_compensation after the activity returned: lines 148-166
RegisterCompensation(stack, step, result) ==
    IF step.compensation # ""
    THEN Append(stack, CompensationStep(step.compensation,
                                        inject_result_values(step.compensation_input, result),
                                        step.id))
    ELSE stack

\* a walk in registration order
RollbackInRegistrationOrder(stack) == stack

\* the order in which rollback walks the stack: line 345
RollbackOrder(stack) == Reversed(stack)

\* ---- run / _handle_success / _handle_failure ----------------------------
RunResult(status, n, fsid, results) ==
    [status |-> status, steps_executed |-> n, failed_step_id |-> fsid,
     compensation_results |-> results]

\* a failure handler that returns its result without logging WorkflowFailed
FinishFailureWithoutEvent(ev, results, fsid) ==
    /\ events' = ev
    /\ wpc' = "failed"
    /\ compensation_results' = results
    /\ workflow_result' = RunResult("failed", 0, fsid, results)

\* _handle_failure after rollback returned: lines 865-885
FinishFailure(ev, results, fsid) ==
    /\ events' = append_event(ev, Event("WorkflowFailed", fsid, <<>>, FALSE, results))
    /\ wpc' = "failed"
    /\ compensation_results' = results
    /\ workflow_result' = RunResult("failed", 0, fsid, results)

\* run's except branch: _handle_failure, rollback up to its first activity
BeginFailure(ev, fsid, lvl) ==
    /\ rollback_executed' = TRUE
    /\ level' = lvl
    /\ UNCHANGED <<ready_queue, spc, step_level>>
    /\ IF rollback_executed \/ compensation_stack = <<>>
       THEN /\ FinishFailure(ev, <<>>, fsid)
            /\ UNCHANGED <<rb_done, comp_calls>>
       ELSE /\ wpc' = "rollback"
            /\ rb_done' = 0
            /\ compensation_results' = <<>>
            /\ comp_calls' = Append(comp_calls, RollbackOrder(compensation_stack)[1].step_id)
            /\ events' = ev
            /\ UNCHANGED workflow_result

\* _handle_success: lines 835-856
Complete(ev, steps, lvl) ==
    /\ events' = append_event(ev, Event("WorkflowCompleted", "", <<>>, TRUE, <<>>))
    /\ wpc' = "completed"
    /\ workflow_result' = RunResult("completed", Len(steps), "", <<>>)
    /\ level' = lvl
    /\ UNCHANGED <<ready_queue, spc, step_level, rollback_executed, rb_done,
                   compensation_results, comp_calls>>

\* ---- _execute_plan ------------------------------------------------------
RECURSIVE DepPairs(_)
DepPairs(steps) ==
    IF steps = <<>> THEN <<>>
    ELSE [i \in 1..Len(Head(steps).depends_on) |->
             <<Head(steps).depends_on[i], Head(steps).id>>]
         \o DepPairs(Tail(steps))

\* dependents[p], in the order the build loop appended them: lines 590-598
Dependents(steps, p) ==
    LET sel == SelectSeq(DepPairs(steps), LAMBDA x : x[1] = p)
    IN  [i \in 1..Len(sel) |-> sel[i][2]]

\* every step counted as having no dependency
ZeroInDegree(steps) == [id \in {steps[i].id : i \in DOMAIN steps} |-> 0]

\* in_degree: line 601
InitialInDegree(steps) ==
    [id \in PlanIds(steps) |-> Len(StepOf(steps, id).depends_on)]

\* ready_queue: line 604
InitialReady(steps) ==
    SelectSeq([i \in 1..Len(steps) |-> steps[i].id],
              LAMBDA id : InitialInDegree(steps)[id] = 0)

\* lines 644-647 for one finished step
RECURSIVE ProcessDependents(_, _)
ProcessDependents(deps, st) ==
    IF deps = <<>> THEN st
    ELSE LET d    == Head(deps)
             deg2 == [st.deg EXCEPT ![d] = @ - 1]
         IN  ProcessDependents(Tail(deps),
                [st EXCEPT !.deg  = deg2,
                           !.next = IF deg2[d] = 0 /\ d \notin st.exec
                                    THEN Append(st.next, d) ELSE st.next])

\* a walk of the results that goes on after an exception and keeps the last
RECURSIVE ProcessResultsKeepLast(_, _, _, _)
ProcessResultsKeepLast(queue, st, steps, pcs) ==
    IF queue = <<>> THEN st
    ELSE IF pcs[Head(queue)] = "failed"
    THEN ProcessResultsKeepLast(Tail(queue), [st EXCEPT !.failed = Head(queue)], steps, pcs)
    ELSE ProcessResultsKeepLast(Tail(queue),
                                ProcessDependents(Dependents(steps, Head(queue)),
                                                  [st EXCEPT !.exec = @ \cup {Head(queue)}]),
                                steps, pcs)

\* lines 632-647: walk the gathered results in ready_queue order, stop at
\* the first exception
RECURSIVE ProcessResults(_, _, _, _)
ProcessResults(queue, st, steps, pcs) ==
    IF queue = <<>> THEN st
    ELSE IF pcs[Head(queue)] = "failed" THEN [st EXCEPT !.failed = Head(queue)]
    ELSE ProcessResults(Tail(queue),
                        ProcessDependents(Dependents(steps, Head(queue)),
                                          [st EXCEPT !.exec = @ \cup {Head(queue)}]),
                        steps, pcs)

\* line 623-629: create the coroutines of the next frontier and gather them
Launch(queue, ev, lvl) ==
    /\ wpc' = "exec"
    /\ ready_queue' = queue
    /\ level' = lvl
    /\ spc' = [s \in StepIds |-> IF s \in Range(queue) THEN "ready" ELSE spc[s]]
    /\ step_level' = [s \in StepIds |-> IF s \in Range(queue) THEN lvl ELSE step_level[s]]
    /\ events' = ev
    /\ UNCHANGED <<rollback_executed, rb_done, compensation_results, comp_calls,
                   workflow_result>>

\* a loop end that takes the drained frontier for the end of the plan
AfterFrontierWithoutCheck(next, exec, ev, steps, fsid, lvl) ==
    IF next # <<>> THEN Launch(next, ev, lvl)
    ELSE Complete(ev, steps, lvl)

\* the while test and what follows the loop: lines 613, 652-658
AfterFrontier(next, exec, ev, steps, fsid, lvl) ==
    IF next # <<>> THEN Launch(next, ev, lvl)
    ELSE IF Cardinality(exec) = Len(steps) THEN Complete(ev, steps, lvl)
    ELSE BeginFailure(ev, fsid, lvl)

\* groups of variables an action leaves alone
planVars == <<plan_id, plan_steps>>
latchVars == <<workflow_paused, workflow_cancelled, force_man_mode_all, force_man_mode_steps>>
dagVars == <<in_degree, executed, step_results, failed_step_id>>
runVars == <<wpc, ready_queue, level, step_level, rollback_executed, rb_done,
             compensation_results, comp_calls, workflow_result>>
counterVars == <<delivered, submitted>>
outsideVars == <<engine_policy, man_methods_on, now, callVars, triageVars,
                 policyVars, apiVars, sagaCallVars>>

\* ---- run: lines 471-516 -------------------------------------------------
RunStart ==
    /\ wpc = "init"
    /\ events' = append_event(events, Event("GoalReceived", "", <<>>, TRUE, <<>>))
    /\ wpc' = "cache"
    /\ UNCHANGED <<planVars, latchVars, dagVars, pending_man_decisions,
                   compensation_stack, ready_queue, level, step_level,
                   rollback_executed, rb_done, compensation_results, comp_calls,
                   workflow_result, spc, task_id, step_outcome, tool_calls,
                   applied_decision, counterVars, outsideVars, man_tasks>>

\* PlanGenerated appended, then _execute_plan up to its first gather
PlanReady(p) ==
    /\ plan_id' = "plan1"
    /\ plan_steps' = p
    /\ in_degree' = InitialInDegree(p)
    /\ executed' = {}
    /\ AfterFrontier(InitialReady(p), {},
                     append_event(events, Event("PlanGenerated", "", <<>>, TRUE, <<>>)),
                     p, failed_step_id, 1)
    /\ UNCHANGED <<latchVars, step_results, failed_step_id, pending_man_decisions,
                   compensation_stack, task_id, step_outcome, tool_calls,
                   applied_decision, counterVars, outsideVars, man_tasks>>

\* check_semantic_cache returned a plan
CacheHit(p) ==
    /\ wpc = "cache"
    /\ PlanReady(p)

\* check_semantic_cache returned nothing or failed: generate_plan_with_llm starts
CacheMiss ==
    /\ wpc = "cache"
    /\ wpc' = "planning"
    /\ UNCHANGED <<events, planVars, latchVars, dagVars, pending_man_decisions,
                   compensation_stack, ready_queue, level, step_level,
                   rollback_executed, rb_done, compensation_results, comp_calls,
                   workflow_result, spc, task_id, step_outcome, tool_calls,
                   applied_decision, counterVars, outsideVars, man_tasks>>

PlanFromLLM(p) ==
    /\ wpc = "planning"
    /\ PlanReady(p)

\* generate_plan_with_llm raised after its retries
PlanFailed ==
    /\ wpc = "planning"
    /\ BeginFailure(events, failed_step_id, level)
    /\ UNCHANGED <<planVars, latchVars, dagVars, pending_man_decisions,
                   compensation_stack, task_id, step_outcome, tool_calls,
                   applied_decision, counterVars, outsideVars, man_tasks>>

\* ---- _execute_single_step ----------------------------------------------
stepRest == <<planVars, dagVars, runVars, compensation_stack, counterVars, outsideVars>>

\* lines 702-719: ActionIntent(tenant_id=self._get_tenant_id(), ...), then
\* backlog_check starts
BuildIntent(s) ==
    IF man_methods_on = "AgentWorkflow"
    THEN MoveStep(s, "backlog")
    ELSE FailStep(s, "AttributeError")

\* lines 689-719: the head of the step up to its first await
StepHead(s) ==
    /\ wpc = "exec"
    /\ spc[s] = "ready"
    /\ IF workflow_cancelled THEN FailStep(s, "WorkflowCancelled")
       ELSE IF workflow_paused THEN MoveStep(s, "pause_wait")
       ELSE BuildIntent(s)
    /\ UNCHANGED <<stepRest, latchVars, pending_man_decisions, task_id,
                   applied_decision, man_tasks>>

\* a wake of the pause wait that does not look at the latch
PauseWakeWhilePaused(s) ==
    /\ spc[s] = "pause_wait"
    /\ BuildIntent(s)
    /\ UNCHANGED <<stepRest, latchVars, pending_man_decisions, task_id,
                   applied_decision, man_tasks>>

\* line 698: wait_condition(not workflow_paused) wakes, backlog_check starts
PauseWake(s) ==
    /\ spc[s] = "pause_wait"
    /\ ~workflow_paused
    /\ BuildIntent(s)
    /\ UNCHANGED <<stepRest, latchVars, pending_man_decisions, task_id,
                   applied_decision, man_tasks>>

\* lines 715-732: backlog_check returned
BacklogDone(s) ==
    /\ spc[s] = "backlog"
    /\ LET backlog_result == backlog_check(man_tasks, engine_policy, TenantId)
       IN  IF backlog_result.overloaded /\ backlog_result.action = "BLOCK_NEW"
           THEN /\ FailStep(s, "BacklogBlocked")
                /\ UNCHANGED workflow_paused
           ELSE IF backlog_result.overloaded /\ backlog_result.action = "FORCE_PAUSE"
           THEN /\ workflow_paused' = TRUE
                /\ MoveStep(s, "force_pause_wait")
           ELSE /\ MoveStep(s, "triage")
                /\ UNCHANGED workflow_paused
    /\ UNCHANGED <<stepRest, workflow_cancelled, force_man_mode_all,
                   force_man_mode_steps, pending_man_decisions, task_id,
                   applied_decision, man_tasks>>

\* a backlog_check failure that is let through to the step
BacklogErrorFailsStep(s) ==
    /\ spc[s] = "backlog"
    /\ FailStep(s, "ActivityError")
    /\ UNCHANGED <<stepRest, latchVars, pending_man_decisions, task_id,
                   applied_decision, man_tasks>>

\* lines 734-736: backlog_check raised ActivityError
BacklogError(s) ==
    /\ spc[s] = "backlog"
    /\ MoveStep(s, "triage")
    /\ UNCHANGED <<stepRest, latchVars, pending_man_decisions, task_id,
                   applied_decision, man_tasks>>

\* line 732: wait_condition(not workflow_paused) wakes, risk_triage starts
ForcePauseWake(s) ==
    /\ spc[s] = "force_pause_wait"
    /\ ~workflow_paused
    /\ MoveStep(s, "triage")
    /\ UNCHANGED <<stepRest, latchVars, pending_man_decisions, task_id,
                   applied_decision, man_tasks>>

\* the triage result after force promotion: lines 742-751
GateLane(s) ==
    LET triage_result == triage_intent(engine_policy, StepIntent(s), get_workflow_key, <<>>)
    IN  IF force_man_mode_all \/ s \in force_man_mode_steps
        THEN "RED" ELSE triage_result.lane

\* lines 742-761: risk_triage returned
TriageDone(s) ==
    /\ spc[s] = "triage"
    /\ IF GateLane(s) = "RED"
       THEN MoveStep(s, "create")
       ELSE StartTool(s, 0)
    /\ UNCHANGED <<stepRest, latchVars, pending_man_decisions, task_id,
                   applied_decision, man_tasks>>

\* lines 774-776: risk_triage raised ActivityError
TriageError(s) ==
    /\ spc[s] = "triage"
    /\ StartTool(s, 0)
    /\ UNCHANGED <<stepRest, latchVars, pending_man_decisions, task_id,
                   applied_decision, man_tasks>>

\* a step that goes on to its tool once the task is created
CreateDoneWithoutWait(s) ==
    /\ spc[s] = "create"
    /\ LET triage_result == [triage_intent(engine_policy, StepIntent(s), get_workflow_key, <<>>)
                                EXCEPT !.lane = "RED"]
           created       == create_man_task(man_tasks, StepIntent(s), triage_result, now)
       IN  /\ man_tasks' = created[1]
           /\ task_id' = [task_id EXCEPT ![s] = created[2].id]
           /\ StartTool(s, created[2].id)
           /\ UNCHANGED <<applied_decision, workflow_cancelled>>
    /\ UNCHANGED <<stepRest, workflow_paused, force_man_mode_all, force_man_mode_steps,
                   pending_man_decisions>>

\* lines 757-768: create_man_task returned the task
CreateDone(s) ==
    /\ spc[s] = "create"
    /\ LET triage_result == [triage_intent(engine_policy, StepIntent(s), get_workflow_key, <<>>)
                                EXCEPT !.lane = "RED"]
           created       == create_man_task(man_tasks, StepIntent(s), triage_result, now)
           tid           == created[2].id
       IN  /\ man_tasks' = created[1]
           /\ task_id' = [task_id EXCEPT ![s] = tid]
           /\ IF tid \in DictKeys(pending_man_decisions)
              THEN ApplyDecision(s, tid)
              ELSE /\ MoveStep(s, "await_man")
                   /\ UNCHANGED <<applied_decision, workflow_cancelled>>
    /\ UNCHANGED <<stepRest, workflow_paused, force_man_mode_all, force_man_mode_steps,
                   pending_man_decisions>>

\* lines 774-776: create_man_task raised ActivityError, before or after its upsert
CreateError(s) ==
    /\ spc[s] = "create"
    /\ \E written \in BOOLEAN :
          LET triage_result == [triage_intent(engine_policy, StepIntent(s),
                                              get_workflow_key, <<>>)
                                   EXCEPT !.lane = "RED"]
          IN  man_tasks' = IF written
                           THEN create_man_task(man_tasks, StepIntent(s), triage_result, now)[1]
                           ELSE man_tasks
    /\ StartTool(s, 0)
    /\ UNCHANGED <<stepRest, latchVars, pending_man_decisions, task_id, applied_decision>>

\* line 235: wait_condition(task_id in pending_man_decisions) wakes
ManDecisionWake(s) ==
    /\ spc[s] = "await_man"
    /\ task_id[s] \in DictKeys(pending_man_decisions)
    /\ ApplyDecision(s, task_id[s])
    /\ UNCHANGED <<stepRest, workflow_paused, force_man_mode_all, force_man_mode_steps,
                   pending_man_decisions, task_id, man_tasks>>

toolRest == <<planVars, dagVars, runVars, latchVars, pending_man_decisions, task_id,
              tool_calls, applied_decision, counterVars, outsideVars, man_tasks>>

\* lines 799-819: the tool activity returned
ToolSucceeded(s) ==
    /\ spc[s] = "tool"
    /\ LET step == StepOf(plan_steps, s)
       IN  compensation_stack' =
               RegisterCompensation(compensation_stack, step, ToolResult(step.tool))
    /\ events' = append_event(events, Event("ToolResultReceived", s, <<>>, TRUE, <<>>))
    /\ spc' = [spc EXCEPT ![s] = "done"]
    /\ UNCHANGED <<toolRest, step_outcome>>

\* a tool failure that has registered the step's compensation first
ToolFailedAfterRegistering(s) ==
    /\ spc[s] = "tool"
    /\ LET step == StepOf(plan_steps, s)
       IN  compensation_stack' =
               RegisterCompensation(compensation_stack, step, ToolResult(step.tool))
    /\ events' = append_event(events, Event("ToolResultReceived", s, <<>>, FALSE, <<>>))
    /\ spc' = [spc EXCEPT ![s] = "failed"]
    /\ step_outcome' = [step_outcome EXCEPT ![s] = "ActivityError"]
    /\ UNCHANGED toolRest

\* lines 821-833: the tool activity raised ActivityError after its retries
ToolFailed(s) ==
    /\ spc[s] = "tool"
    /\ events' = append_event(events, Event("ToolResultReceived", s, <<>>, FALSE, <<>>))
    /\ spc' = [spc EXCEPT ![s] = "failed"]
    /\ step_outcome' = [step_outcome EXCEPT ![s] = "ActivityError"]
    /\ UNCHANGED <<toolRest, compensation_stack>>

\* ---- the join of a frontier: lines 629-658 ------------------------------
\* asyncio.gather(*parallel_tasks, return_exceptions=True) returns when every
\* coroutine of the frontier has returned or raised
\* a join that returns only when every coroutine has returned a result
FrontierAllSucceeded(queue, pcs) == \A s \in Range(queue) : pcs[s] = "done"

\* a join without return_exceptions: the first exception ends the wait
FrontierReturnedOrRaised(queue, pcs) ==
    \/ \A s \in Range(queue) : pcs[s] \in {"done", "failed"}
    \/ \E s \in Range(queue) : pcs[s] = "failed"

\* a join that returns with the first coroutine to finish
FrontierAnyReturned(queue, pcs) == \E s \in Range(queue) : pcs[s] \in {"done", "failed"}

FrontierReturned(queue, pcs) == \A s \in Range(queue) : pcs[s] \in {"done", "failed"}

Gather ==
    /\ wpc = "exec"
    /\ FrontierReturned(ready_queue, spc)
    /\ LET st == ProcessResults(ready_queue,
                                [deg |-> in_degree, exec |-> executed,
                                 next |-> <<>>, failed |-> ""],
                                plan_steps, spc)
       IN  /\ in_degree' = st.deg
           /\ executed' = st.exec
           /\ step_results' = st.exec
           /\ IF st.failed # ""
              THEN /\ failed_step_id' = st.failed
                   /\ BeginFailure(events, st.failed, level)
              ELSE /\ UNCHANGED failed_step_id
                   /\ AfterFrontier(st.next, st.exec, events, plan_steps,
                                    failed_step_id, level + 1)
    /\ UNCHANGED <<planVars, latchVars, pending_man_decisions, compensation_stack,
                   task_id, step_outcome, tool_calls, applied_decision,
                   counterVars, outsideVars, man_tasks>>

\* ---- SagaContext.rollback: lines 345-364 --------------------------------
CompensationDone(ok) ==
    /\ wpc = "rollback"
    /\ LET order   == RollbackOrder(compensation_stack)
           results == Append(compensation_results,
                             [step_id |-> order[rb_done + 1].step_id, success |-> ok])
       IN  IF rb_done + 1 < Len(order)
           THEN /\ rb_done' = rb_done + 1
                /\ compensation_results' = results
                /\ comp_calls' = Append(comp_calls, order[rb_done + 2].step_id)
                /\ UNCHANGED <<events, wpc, workflow_result>>
           ELSE /\ rb_done' = rb_done + 1
                /\ FinishFailure(events, results, failed_step_id)
                /\ UNCHANGED comp_calls
    /\ UNCHANGED <<planVars, latchVars, dagVars, pending_man_decisions,
                   compensation_stack, ready_queue, level, step_level,
                   rollback_executed, spc, task_id, step_outcome, tool_calls,
                   applied_decision, counterVars, outsideVars, man_tasks>>

\* ---- signal and update handlers: lines 262-318 --------------------------
Running == wpc \notin {"completed", "failed"}

signalRest == <<events, planVars, dagVars, runVars, pending_man_decisions,
                compensation_stack, spc, task_id, step_outcome, tool_calls,
                applied_decision, outsideVars, man_tasks>>

\* a signal or update reaches a handler of the workflow class
HandlerOnWorkflow == man_methods_on = "AgentWorkflow"

SignalDelivered ==
    /\ Running
    /\ HandlerOnWorkflow
    /\ delivered < MaxDeliveries
    /\ delivered' = delivered + 1
    /\ UNCHANGED submitted

pause_workflow ==
    /\ SignalDelivered
    /\ workflow_paused' = TRUE
    /\ UNCHANGED <<signalRest, workflow_cancelled, force_man_mode_all, force_man_mode_steps>>

resume_workflow ==
    /\ SignalDelivered
    /\ workflow_paused' = FALSE
    /\ UNCHANGED <<signalRest, workflow_cancelled, force_man_mode_all, force_man_mode_steps>>

cancel_workflow ==
    /\ SignalDelivered
    /\ workflow_cancelled' = TRUE
    /\ UNCHANGED <<signalRest, workflow_paused, force_man_mode_all, force_man_mode_steps>>

\* scope = "ALL"
force_man_mode_ALL ==
    /\ SignalDelivered
    /\ force_man_mode_all' = TRUE
    /\ UNCHANGED <<signalRest, workflow_paused, workflow_cancelled, force_man_mode_steps>>

\* scope = "STEPS" with a non-empty list
force_man_mode_STEPS(step_ids) ==
    /\ SignalDelivered
    /\ step_ids # {}
    /\ force_man_mode_steps' = force_man_mode_steps \cup step_ids
    /\ UNCHANGED <<signalRest, workflow_paused, workflow_cancelled, force_man_mode_all>>

\* decisions an operator may submit
DecisionSet ==
    {ManDecisionPayload("APPROVE", "r1", <<>>),
     ManDecisionPayload("DENY", "r1", <<>>),
     ManDecisionPayload("MODIFY", "r1", <<<<"id", "43">>, <<"soft", "true">>>>),
     ManDecisionPayload("CANCEL_WORKFLOW", "r1", <<>>)}

\* the update handler; main.py delivers it for tasks found in the store
submit_man_decision(task, decision_payload) ==
    /\ Running
    /\ HandlerOnWorkflow
    /\ delivered < MaxDeliveries
    /\ delivered' = delivered + 1
    /\ submitted' = Append(submitted, <<task, decision_payload.decision>>)
    /\ task \in DOMAIN man_tasks
    /\ pending_man_decisions' = DictSet(pending_man_decisions, task, decision_payload)
    /\ UNCHANGED <<events, planVars, dagVars, runVars, latchVars, compensation_stack,
                   spc, task_id, step_outcome, tool_calls, applied_decision,
                   outsideVars, man_tasks>>

\* ------------------------------------------------------------------------
\* The workflow specification
\* ------------------------------------------------------------------------
NoCalls ==
    /\ create_returns = <<>>
    /\ resolvers = <<>>
    /\ sweep = [pc |-> "idle", expired_tasks |-> <<>>, expired_count |-> 0, returned |-> 0]
    /\ triage_calls = <<>>
    /\ backlog_calls = <<>>
    /\ man_policies = <<>>
    /\ policy_cache = <<>>
    /\ policy_loads = <<>>
    /\ api_calls = <<>>
    /\ rollback_returns = <<>>

WorkflowInit ==
    /\ events = <<>>
    /\ plan_id = ""
    /\ plan_steps = <<>>
    /\ step_results = {}
    /\ failed_step_id = ""
    /\ workflow_paused = FALSE
    /\ workflow_cancelled = FALSE
    /\ force_man_mode_all = FALSE
    /\ force_man_mode_steps = {}
    /\ pending_man_decisions = <<>>
    /\ compensation_stack = <<>>
    /\ rollback_executed = FALSE
    /\ wpc = "init"
    /\ ready_queue = <<>>
    /\ in_degree = <<>>
    /\ executed = {}
    /\ level = 0
    /\ rb_done = 0
    /\ compensation_results = <<>>
    /\ workflow_result = RunResult("running", 0, "", <<>>)
    /\ spc = [s \in StepIds |-> "idle"]
    /\ task_id = [s \in StepIds |-> 0]
    /\ step_outcome = [s \in StepIds |-> "none"]
    /\ tool_calls = [s \in StepIds |-> <<>>]
    /\ comp_calls = <<>>
    /\ step_level = [s \in StepIds |-> 0]
    /\ applied_decision = [s \in StepIds |-> "none"]
    /\ delivered = 0
    /\ submitted = <<>>

Init ==
    /\ WorkflowInit
    /\ engine_policy \in EnginePolicySet
    /\ man_methods_on \in {"SagaContext", "AgentWorkflow"}
    /\ man_tasks = <<>>
    /\ now = 0
    /\ NoCalls

Next ==
    \/ RunStart
    \/ \E p \in PlanSet : CacheHit(p)
    \/ CacheMiss
    \/ \E p \in PlanSet : PlanFromLLM(p)
    \/ PlanFailed
    \/ \E s \in StepIds : StepHead(s)
    \/ \E s \in StepIds : PauseWake(s)
    \/ \E s \in StepIds : BacklogDone(s)
    \/ \E s \in StepIds : BacklogError(s)
    \/ \E s \in StepIds : ForcePauseWake(s)
    \/ \E s \in StepIds : TriageDone(s)
    \/ \E s \in StepIds : TriageError(s)
    \/ \E s \in StepIds : CreateDone(s)
    \/ \E s \in StepIds : CreateError(s)
    \/ \E s \in StepIds : ManDecisionWake(s)
    \/ \E s \in StepIds : ToolSucceeded(s)
    \/ \E s \in StepIds : ToolFailed(s)
    \/ Gather
    \/ \E ok \in BOOLEAN : CompensationDone(ok)
    \/ pause_workflow
    \/ resume_workflow
    \/ cancel_workflow
    \/ force_man_mode_ALL
    \/ \E s \in StepIds : force_man_mode_STEPS({s})
    \/ \E t \in DOMAIN man_tasks, d \in DecisionSet : submit_man_decision(t, d)

Spec == Init /\ [][Next]_vars

\* ------------------------------------------------------------------------
\* The store specification: concurrent callers of create_man_task,
\* resolve_man_task and cleanup_expired_tasks.  Every db call is one
\* statement of the database and so one step; a caller may be overtaken
\* between two of its statements.
\* ------------------------------------------------------------------------
\* intents the callers hand to create_man_task.  The second names the first's
\* action with its parameters inserted in the other order and another run.
StoreFlags ==
    [irreversible |-> TRUE, contains_sensitive_data |-> FALSE, affects_rights |-> FALSE]

StoreIntents ==
    {ActionIntent("t1", "wf1", "run1", "a", "delete_record",
                  <<<<"id", "42">>, <<"to", "ops">>>>, StoreFlags),
     ActionIntent("t1", "wf1", "run2", "a", "delete_record",
                  <<<<"to", "ops">>, <<"id", "42">>>>, StoreFlags),
     ActionIntent("t2", "wf1", "run1", "a", "delete_record",
                  <<<<"id", "42">>, <<"to", "ops">>>>, StoreFlags)}

StorePayloads ==
    {ManDecisionPayload("APPROVE", "r1", <<>>),
     ManDecisionPayload("DENY", "r2", <<>>),
     ManDecisionPayload("MODIFY", "r2", <<<<"soft", "true">>>>),
     ManDecisionPayload("CANCEL_WORKFLOW", "r1", <<>>)}

\* what identifies an action for create_man_task: lines 156-162
CallerKey(intent) ==
    <<intent.tenant_id, intent.workflow_id, intent.step_id, intent.tool_name,
      {intent.tool_params[i] : i \in DOMAIN intent.tool_params}>>

\* the part of a row resolve_man_task and the sweep write
Resolution(row) == <<row.status, row.reviewer_id, row.decision>>

\* default TTL in seconds: cleanup_expired_tasks lines 504, 513-514
TtlSeconds(tenant) == DEFAULT_MAN_POLICY.task_ttl_minutes * 60

wfFrozen == UNCHANGED <<wfVars, triageVars, policyVars, apiVars, sagaCallVars>>

\* create_man_task: lines 153-207
CreateCall(intent) ==
    /\ Len(create_returns) < MaxCreateCalls
    /\ LET triage_result == triage_intent(DEFAULT_MAN_POLICY, intent, "", <<>>)
           created       == create_man_task(man_tasks, intent, triage_result, now)
       IN  /\ man_tasks' = created[1]
           /\ create_returns' = Append(create_returns,
                                       [intent |-> intent,
                                        idempotency_key |-> IdempotencyKey(intent),
                                        created_task |-> created[2]])
    /\ UNCHANGED <<now, resolvers, sweep>>
    /\ wfFrozen

\* resolve_man_task up to its first select_one: lines 259-278
ResolveBegin(task, decision_payload) ==
    /\ Len(resolvers) < MaxResolveCalls
    /\ LET found == task \in DOMAIN man_tasks
           pc    == IF ~found THEN "not_found"
                    ELSE IF man_tasks[task].status # "PENDING" THEN "reselect"
                    ELSE "update"
       IN  resolvers' = Append(resolvers,
                               [task_id |-> task, decision_payload |-> decision_payload,
                                existing_status |-> IF found THEN man_tasks[task].status
                                                    ELSE "NULL",
                                pc |-> pc, updated |-> FALSE, returned |-> NoRow])
    /\ UNCHANGED <<man_tasks, now, create_returns, sweep>>
    /\ wfFrozen

\* lines 280-327: the guarded update; its row is returned when it changed one
ResolveUpdate(i) ==
    /\ i \in DOMAIN resolvers
    /\ resolvers[i].pc = "update"
    /\ LET r       == resolvers[i]
           updates == [status      |-> StatusOfDecision(r.decision_payload.decision),
                       reviewer_id |-> r.decision_payload.reviewer_id,
                       decision    |-> r.decision_payload]
           result  == UpdateIfPending(man_tasks, r.task_id, updates)
       IN  /\ man_tasks' = result[1]
           /\ resolvers' = [resolvers EXCEPT ![i] =
                   IF result[2] # NoRow
                   THEN [r EXCEPT !.pc = "done", !.updated = TRUE, !.returned = result[2]]
                   ELSE [r EXCEPT !.pc = "reselect"]]
    /\ UNCHANGED <<now, create_returns, sweep>>
    /\ wfFrozen

\* lines 277-278 and 307-308: return the row as it is now
ResolveReselect(i) ==
    /\ i \in DOMAIN resolvers
    /\ resolvers[i].pc = "reselect"
    /\ resolvers' = [resolvers EXCEPT ![i] =
            [@ EXCEPT !.pc = "done", !.returned = man_tasks[resolvers[i].task_id]]]
    /\ UNCHANGED <<man_tasks, now, create_returns, sweep>>
    /\ wfFrozen

\* cleanup_expired_tasks up to its list of expired ids: lines 493-530
SweepLoad ==
    /\ sweep.pc = "idle"
    /\ sweep.returned = 0
    /\ LET expired == SelectSeq([i \in DOMAIN man_tasks |-> i],
                                LAMBDA i : /\ man_tasks[i].status = "PENDING"
                                           /\ now - man_tasks[i].created_at
                                                > TtlSeconds(man_tasks[i].tenant_id))
       IN  sweep' = [pc |-> "mark", expired_tasks |-> expired, expired_count |-> 0,
                     returned |-> 0]
    /\ UNCHANGED <<man_tasks, now, create_returns, resolvers>>
    /\ wfFrozen

\* one turn of the marking loop: lines 533-540
SweepUpdate ==
    /\ sweep.pc = "mark"
    /\ sweep.expired_tasks # <<>>
    /\ LET task   == Head(sweep.expired_tasks)
           row    == man_tasks[task]
           result == UpdateIfPending(man_tasks, task,
                                     [status      |-> "EXPIRED",
                                      reviewer_id |-> row.reviewer_id,
                                      decision    |-> row.decision])
       IN  /\ man_tasks' = result[1]
           /\ sweep' = [sweep EXCEPT !.expired_tasks = Tail(@),
                                     !.expired_count = @ + 1]
    /\ UNCHANGED <<now, create_returns, resolvers>>
    /\ wfFrozen

\* line 542
SweepDone ==
    /\ sweep.pc = "mark"
    /\ sweep.expired_tasks = <<>>
    /\ sweep' = [sweep EXCEPT !.pc = "idle", !.returned = sweep.expired_count + 1]
    /\ UNCHANGED <<man_tasks, now, create_returns, resolvers>>
    /\ wfFrozen

\* the clock moves on by one TTL
Tick ==
    /\ now < MaxTime * TtlSeconds("t1")
    /\ now' = now + TtlSeconds("t1")
    /\ UNCHANGED <<man_tasks, create_returns, resolvers, sweep>>
    /\ wfFrozen

StoreInit ==
    /\ WorkflowInit
    /\ engine_policy = DEFAULT_MAN_POLICY
    /\ man_methods_on = "SagaContext"
    /\ man_tasks = <<>>
    /\ now = 0
    /\ NoCalls

StoreNext ==
    \/ \E intent \in StoreIntents : CreateCall(intent)
    \/ \E task \in 1..MaxCreateCalls, d \in StorePayloads : ResolveBegin(task, d)
    \/ \E i \in 1..MaxResolveCalls : ResolveUpdate(i)
    \/ \E i \in 1..MaxResolveCalls : ResolveReselect(i)
    \/ SweepLoad
    \/ SweepUpdate
    \/ SweepDone
    \/ Tick

StoreSpec == StoreInit /\ [][StoreNext]_vars

\* ------------------------------------------------------------------------
\* Properties of the workflow (Spec)
\* ------------------------------------------------------------------------
ToolStarted(s) == tool_calls[s] # <<>>

Terminal == wpc \in {"completed", "failed"}

Declares(s) == s \in PlanIds(plan_steps) /\ StepOf(plan_steps, s).compensation # ""

StackIds == [i \in DOMAIN compensation_stack |-> compensation_stack[i].step_id]

RECURSIVE HasOrder(_, _)
HasOrder(steps, placed) ==
    IF placed = PlanIds(steps) THEN TRUE
    ELSE LET free == {id \in PlanIds(steps) \ placed :
                         Range(StepOf(steps, id).depends_on) \subseteq placed}
         IN  free # {} /\ HasOrder(steps, placed \cup free)

ValidPlan(steps) == steps # <<>> /\ HasOrder(steps, {})

TerminalStatus == {"APPROVED", "DENIED", "MODIFIED", "CANCELLED", "EXPIRED"}

\* C7: man_tasks never holds two rows with one (tenant_id, idempotency_key),
\* and two create calls for the same (tenant, workflow, step, tool, params as
\* a mapping) computed the same key and got the row with the same id.
C7_OneRowPerKey ==
    /\ \A i, j \in DOMAIN man_tasks :
          (/\ man_tasks[i].tenant_id = man_tasks[j].tenant_id
           /\ man_tasks[i].idempotency_key = man_tasks[j].idempotency_key) => i = j
    /\ \A x, y \in DOMAIN create_returns :
          CallerKey(create_returns[x].intent) = CallerKey(create_returns[y].intent) =>
              /\ create_returns[x].idempotency_key = create_returns[y].idempotency_key
              /\ create_returns[x].created_task.id = create_returns[y].created_task.id
              /\ create_returns[x].created_task.idempotency_key
                    = create_returns[x].idempotency_key

\* two calls of different runs, their parameters inserted in different order,
\* got the one row
C7_Witness ==
    /\ Len(man_tasks) = 1
    /\ Len(create_returns) = 2
    /\ create_returns[1].intent.tool_params # create_returns[2].intent.tool_params
    /\ create_returns[1].created_task.id = create_returns[2].created_task.id

\* C8: in every step of the store a row stays, a new row is PENDING, a PENDING
\* row stays PENDING or takes one of the five terminal statuses, and a row
\* with a terminal status keeps it, a repeated create included.
C8_StatusMonotone ==
    [][/\ Len(man_tasks') >= Len(man_tasks)
       /\ \A i \in DOMAIN man_tasks' :
             IF i \in DOMAIN man_tasks
             THEN /\ man_tasks'[i].status \in {man_tasks[i].status} \cup TerminalStatus
                  /\ man_tasks[i].status # "PENDING" =>
                        man_tasks'[i].status = man_tasks[i].status
             ELSE man_tasks'[i].status = "PENDING"]_vars

\* a create call met a row that had been resolved, and the row is still resolved
C8_Witness ==
    \E x \in DOMAIN create_returns :
        /\ create_returns[x].created_task.status \in TerminalStatus
        /\ man_tasks[create_returns[x].created_task.id].status
              = create_returns[x].created_task.status
        /\ \E i \in DOMAIN man_tasks : man_tasks[i].status = "EXPIRED"

Winners(task) == {i \in DOMAIN resolvers : resolvers[i].task_id = task /\ resolvers[i].updated}

\* C9: of the resolve calls on a task at most one passed the PENDING guard; the
\* row carries that call's status, reviewer and decision from then on; every
\* other call that returned got the row in its terminal state, as the winner
\* wrote it when there is one.
C9_FirstResolveWins ==
    /\ \A task \in DOMAIN man_tasks : Cardinality(Winners(task)) <= 1
    /\ \A i \in DOMAIN resolvers :
          LET r == resolvers[i]
          IN  /\ r.updated =>
                    /\ r.pc = "done"
                    /\ r.existing_status = "PENDING"
                    /\ Resolution(r.returned) =
                          <<StatusOfDecision(r.decision_payload.decision),
                            r.decision_payload.reviewer_id, r.decision_payload>>
                    /\ Resolution(man_tasks[r.task_id]) = Resolution(r.returned)
              /\ (r.pc = "done" /\ ~r.updated) =>
                    /\ r.returned.id = r.task_id
                    /\ r.returned.status \in TerminalStatus
                    /\ Resolution(man_tasks[r.task_id]) = Resolution(r.returned)
                    /\ \A w \in Winners(r.task_id) :
                          Resolution(r.returned) = Resolution(resolvers[w].returned)
    /\ \A task \in DOMAIN man_tasks :
          man_tasks[task].status \in TerminalStatus \ {"EXPIRED"} =>
              Cardinality(Winners(task)) = 1

\* two calls with different decisions both saw the row PENDING; one changed
\* it and the other returned what the first wrote
C9_Witness ==
    \E i, j \in DOMAIN resolvers :
        /\ resolvers[i].task_id = resolvers[j].task_id
        /\ resolvers[i].decision_payload # resolvers[j].decision_payload
        /\ resolvers[i].existing_status = "PENDING"
        /\ resolvers[j].existing_status = "PENDING"
        /\ resolvers[i].pc = "done" /\ resolvers[i].updated
        /\ resolvers[j].pc = "done" /\ ~resolvers[j].updated
        /\ resolvers[j].returned.reviewer_id = resolvers[i].decision_payload.reviewer_id

\* ------------------------------------------------------------------------
\* Properties of the control signals (Spec)
\* ------------------------------------------------------------------------
\* positions at which a step coroutine awaits a forward activity
ForwardActivityPcs == {"backlog", "triage", "create", "tool"}

\* the cancel latch was set by the cancel signal: no step applied a
\* CANCEL_WORKFLOW decision, the only other writer of the latch
CancelSignalled ==
    /\ workflow_cancelled
    /\ \A s \in StepIds : applied_decision[s] # "CANCEL_WORKFLOW"

LivePlanSet == {PlanSingle, PlanChain}

\* the steps the scheduler takes on behalf of the run
WorkflowStep ==
    \/ RunStart
    \/ \E p \in LivePlanSet : CacheHit(p)
    \/ CacheMiss
    \/ \E p \in LivePlanSet : PlanFromLLM(p)
    \/ PlanFailed
    \/ \E s \in StepIds : StepHead(s)
    \/ \E s \in StepIds : PauseWake(s)
    \/ \E s \in StepIds : BacklogDone(s)
    \/ \E s \in StepIds : BacklogError(s)
    \/ \E s \in StepIds : TriageError(s)
    \/ \E s \in StepIds : TriageDone(s)
    \/ \E s \in StepIds : CreateError(s)
    \/ \E s \in StepIds : CreateDone(s)
    \/ \E s \in StepIds : ManDecisionWake(s)
    \/ \E s \in StepIds : ToolFailed(s)
    \/ \E s \in StepIds : ToolSucceeded(s)
    \/ Gather
    \/ \E ok \in BOOLEAN : CompensationDone(ok)

\* what reaches the run from outside
Delivery ==
    \/ pause_workflow
    \/ resume_workflow
    \/ cancel_workflow
    \/ force_man_mode_ALL
    \/ \E s \in StepIds : force_man_mode_STEPS({s})
    \/ \E t \in DOMAIN man_tasks, d \in DecisionSet : submit_man_decision(t, d)

\* the TTL sweep and the clock
Expiry ==
    \/ SweepLoad
    \/ SweepUpdate
    \/ SweepDone
    \/ Tick

LiveInit ==
    /\ WorkflowInit
    /\ engine_policy = DEFAULT_MAN_POLICY
    /\ man_methods_on = "AgentWorkflow"
    /\ man_tasks = <<>>
    /\ now = 0
    /\ NoCalls

LiveNext == WorkflowStep \/ Delivery \/ Expiry

LiveSpec == LiveInit /\ [][LiveNext]_vars /\ WF_vars(WorkflowStep)

BacklogFull == PendingCount(man_tasks, TenantId) >= engine_policy.max_pending_per_tenant

\* no row of man_tasks was written for step s
NoTaskFor(s) == \A i \in DOMAIN man_tasks : man_tasks[i].step_id # s

AwaitsExpiredTask(s) ==
    /\ spc[s] = "await_man"
    /\ task_id[s] \in DOMAIN man_tasks
    /\ man_tasks[task_id[s]].status = "EXPIRED"

ToolStarts(s) == Len(tool_calls'[s]) > Len(tool_calls[s])

LongPlanSteps == 500

historyRest == <<planVars, latchVars, dagVars, runVars, counterVars, outsideVars,
                 pending_man_decisions, compensation_stack, spc, task_id,
                 step_outcome, tool_calls, applied_decision, man_tasks>>

LastEvent == events[Len(events)]

\* steps of the long plan whose tool has been requested so far
StepsRequested == (Len(events) - 1) \div 2

\* lines 471-478
HistoryGoal ==
    /\ events = <<>>
    /\ events' = append_event(events, Event("GoalReceived", "", <<>>, TRUE, <<>>))
    /\ UNCHANGED historyRest

\* lines 507-516
HistoryPlan ==
    /\ Len(events) = 1
    /\ events' = append_event(events, Event("PlanGenerated", "", <<>>, TRUE, <<>>))
    /\ UNCHANGED historyRest

\* lines 786-795, for the next step of the plan
HistoryToolRequested ==
    /\ Len(events) >= 2
    /\ LastEvent.type \in {"PlanGenerated", "ToolResultReceived"}
    /\ LastEvent.success
    /\ StepsRequested < LongPlanSteps
    /\ events' = append_event(events,
                              Event("ToolCallRequested", ToString(StepsRequested + 1),
                                    <<>>, TRUE, <<>>))
    /\ UNCHANGED historyRest

\* lines 807-833
HistoryToolResult(ok) ==
    /\ events # <<>>
    /\ LastEvent.type = "ToolCallRequested"
    /\ events' = append_event(events,
                              Event("ToolResultReceived", LastEvent.step_id,
                                    <<>>, ok, <<>>))
    /\ UNCHANGED historyRest

\* lines 835-856
HistoryCompleted ==
    /\ events # <<>>
    /\ LastEvent.type = "ToolResultReceived"
    /\ LastEvent.success
    /\ StepsRequested = LongPlanSteps
    /\ events' = append_event(events, Event("WorkflowCompleted", "", <<>>, TRUE, <<>>))
    /\ UNCHANGED historyRest

\* lines 865-885
HistoryFailed ==
    /\ events # <<>>
    /\ LastEvent.type = "ToolResultReceived"
    /\ ~LastEvent.success
    /\ events' = append_event(events,
                              Event("WorkflowFailed", LastEvent.step_id, <<>>, FALSE, <<>>))
    /\ UNCHANGED historyRest

HistoryInit ==
    /\ WorkflowInit
    /\ engine_policy = DEFAULT_MAN_POLICY
    /\ man_methods_on = "AgentWorkflow"
    /\ man_tasks = <<>>
    /\ now = 0
    /\ NoCalls

HistoryNext ==
    \/ HistoryGoal
    \/ HistoryPlan
    \/ HistoryToolRequested
    \/ \E ok \in BOOLEAN : HistoryToolResult(ok)
    \/ HistoryCompleted
    \/ HistoryFailed

HistorySpec == HistoryInit /\ [][HistoryNext]_vars

MaxTriageCalls == 2

\* the workflow key that has an entry in per_workflow_overrides
CarefulKey == "careful"

\* an override that raises the yellow threshold and sets its own minimum
\* lane for read_file
CarefulOverride ==
    [thresholds |-> <<<<"yellow", 60>>>>,
     tool_minimum_lanes |-> <<<<"read_file", "YELLOW">>>>]

TriagePolicySet ==
    {DEFAULT_MAN_POLICY,
     [DEFAULT_MAN_POLICY EXCEPT !.tool_minimum_lanes = <<<<"send_email", "RED">>>>],
     [DEFAULT_MAN_POLICY EXCEPT
         !.tool_minimum_lanes = <<<<"send_email", "YELLOW">>>>,
         !.per_workflow_overrides = <<<<CarefulKey, CarefulOverride>>>>],
     [DEFAULT_MAN_POLICY EXCEPT !.tool_minimum_lanes = <<<<"send_email", "BLOCKED">>>>]}

NoFlags ==
    [irreversible |-> FALSE, contains_sensitive_data |-> FALSE, affects_rights |-> FALSE]

TriageIntents ==
    {ActionIntent("t1", "wf1", "run1", "a", tool, <<<<"to", "ops">>>>, flags) :
        tool \in {"send_email", "read_file"}, flags \in {NoFlags, StoreFlags}}

TriageKeys == {"", CarefulKey}

TriageSignals == {<<>>, <<"urgent">>}

\* ManLane in the order GREEN < YELLOW < RED < BLOCKED
LaneRank(lane) ==
    CASE lane = "GREEN"   -> 0
      [] lane = "YELLOW"  -> 1
      [] lane = "RED"     -> 2
      [] lane = "BLOCKED" -> 3

triageRest == <<events, plan_id, plan_steps, step_results, failed_step_id,
                latchVars, pending_man_decisions, compensation_stack, runVars,
                in_degree, executed, spc, task_id, step_outcome, tool_calls,
                applied_decision, counterVars, man_methods_on, storeVars, callVars,
                policyVars, apiVars, sagaCallVars>>

\* a triage whose threshold merge writes into the policy's own dict
risk_triage_in_place(intent, workflow_key, free_text_signals) ==
    /\ Len(triage_calls) < MaxTriageCalls
    /\ triage_calls' = Append(triage_calls,
                              [intent            |-> intent,
                               workflow_key      |-> workflow_key,
                               free_text_signals |-> free_text_signals,
                               policy            |-> engine_policy,
                               result            |-> triage_intent(engine_policy, intent,
                                                                   workflow_key,
                                                                   free_text_signals)])
    /\ engine_policy' =
           [engine_policy EXCEPT
               !.global_thresholds = get_effective_thresholds(engine_policy, workflow_key)]
    /\ UNCHANGED <<backlog_calls, triageRest>>

\* activities/man_mode.py 36-92: the activity evaluates the intent under the
\* engine's policy and returns the result; the policy object is only read
\* (get_effective_thresholds merges into a copy)
risk_triage(intent, workflow_key, free_text_signals) ==
    /\ Len(triage_calls) < MaxTriageCalls
    /\ triage_calls' = Append(triage_calls,
                              [intent            |-> intent,
                               workflow_key      |-> workflow_key,
                               free_text_signals |-> free_text_signals,
                               policy            |-> engine_policy,
                               result            |-> triage_intent(engine_policy, intent,
                                                                   workflow_key,
                                                                   free_text_signals)])
    /\ UNCHANGED <<engine_policy, backlog_calls, triageRest>>

TriageInit ==
    /\ WorkflowInit
    /\ engine_policy \in TriagePolicySet
    /\ man_methods_on = "AgentWorkflow"
    /\ man_tasks = <<>>
    /\ now = 0
    /\ NoCalls

TriageNext ==
    \E intent \in TriageIntents, workflow_key \in TriageKeys,
       free_text_signals \in TriageSignals :
        risk_triage(intent, workflow_key, free_text_signals)

TriageSpec == TriageInit /\ [][TriageNext]_vars

\* the minimum lane that applies to the tool of a recorded call
MinimumLaneOf(call) ==
    get_minimum_lane(call.policy, call.intent.tool_name, call.workflow_key)

\* C19: for every call of triage, when a tool-minimum lane applies to the
\* intent's tool (the workflow override's entry if it has one, else the
\* global entry), the lane returned is not below it in the order
\* GREEN < YELLOW < RED < BLOCKED.
C19_LaneNotBelowMinimum ==
    \A i \in DOMAIN triage_calls :
        MinimumLaneOf(triage_calls[i]) # "NONE" =>
            LaneRank(triage_calls[i].result.lane)
                >= LaneRank(MinimumLaneOf(triage_calls[i]))

\* a call for a tool with minimum lane YELLOW came back GREEN
C19_Witness ==
    \E i \in DOMAIN triage_calls :
        /\ MinimumLaneOf(triage_calls[i]) = "YELLOW"
        /\ triage_calls[i].result.lane = "GREEN"

SameTriageInputs(c1, c2) ==
    /\ c1.intent = c2.intent
    /\ c1.policy = c2.policy
    /\ c1.workflow_key = c2.workflow_key
    /\ c1.free_text_signals = c2.free_text_signals

POLICY_CACHE_TTL_SECONDS == 30

MaxPolicyRows == 2
MaxPolicyLoads == 2
MaxPolicyTicks == 2
PolicyTickSeconds == 15

\* the scopes operators write policies for, and the scopes callers load
PolicyUpsertKeys == {<<"t1", "wfA">>, <<"t1", "wfB">>, <<"t1", "">>, <<"t2", "">>, <<"", "">>}
PolicyLoadKeys == {<<"t1", "wfA">>, <<"t1", "">>}

PolicyBodies == {StrictBacklogPolicy("BLOCK_NEW"), StrictBacklogPolicy("FORCE_PAUSE")}

\* cache_key of get_cached_policy / set_cached_policy: lines 373, 395
CacheKey(tenant, workflow_key) ==
    (IF tenant = "" THEN "global" ELSE tenant) \o ":"
        \o (IF workflow_key = "" THEN "default" ELSE workflow_key)

\* db.upsert(table="man_policies", conflict_columns=[tenant_id, workflow_key])
UpsertPolicyRow(table, row) ==
    IF \E i \in DOMAIN table : /\ table[i].tenant_id = row.tenant_id
                               /\ table[i].workflow_key = row.workflow_key
    THEN [i \in DOMAIN table |->
             IF /\ table[i].tenant_id = row.tenant_id
                /\ table[i].workflow_key = row.workflow_key
             THEN row ELSE table[i]]
    ELSE Append(table, row)

\* the filters of the k-th lookup of load_policy_with_cache, None values
\* dropped: lines 420-429
PolicyFilters(tenant, workflow_key, k) ==
    LET wanted == IF k = 1 THEN <<tenant, workflow_key>>
                  ELSE IF k = 2 THEN <<tenant, "">>
                  ELSE <<"", "">>
    IN  [tenant_id    |-> wanted[1], workflow_key |-> wanted[2]]

\* rows an equality query with these filters returns ("" = no filter)
PolicyMatches(table, filters) ==
    {i \in DOMAIN table :
        /\ filters.tenant_id # "" => table[i].tenant_id = filters.tenant_id
        /\ filters.workflow_key # "" => table[i].workflow_key = filters.workflow_key}

\* lookups that keep a None filter as "is null"
PolicyMatchesExactScope(table, filters) ==
    {i \in DOMAIN table :
        /\ table[i].tenant_id = filters.tenant_id
        /\ table[i].workflow_key = filters.workflow_key}

\* set_cached_policy: lines 385-396
set_cached_policy(cache, tenant, workflow_key, policy, time) ==
    DictSet(cache, CacheKey(tenant, workflow_key), [policy |-> policy, timestamp |-> time])

\* del _policy_cache[cache_key]: line 381
DictDel(d, k) == SelectSeq(d, LAMBDA pair : pair[1] # k)

NoCacheEntry == [policy |-> DEFAULT_MAN_POLICY, timestamp |-> 0]

\* PUT /api/v1/man/policies: main.py 279-323
upsert_man_policy(tenant, workflow_key, policy) ==
    /\ \/ Len(man_policies) < MaxPolicyRows
       \/ PolicyMatchesExactScope(man_policies,
                                  [tenant_id |-> tenant, workflow_key |-> workflow_key]) # {}
    /\ man_policies' = UpsertPolicyRow(man_policies,
                                       [tenant_id |-> tenant, workflow_key |-> workflow_key,
                                        policy_json |-> policy])
    /\ UNCHANGED <<policy_cache, policy_loads, wfVars, storeVars, callVars, triageVars,
                   apiVars, sagaCallVars>>

\* load_policy_with_cache up to its first select_one: lines 408-418, with
\* get_cached_policy, lines 362-382
LoadBegin(tenant, workflow_key) ==
    /\ Len(policy_loads) < MaxPolicyLoads
    /\ LET cache_key == CacheKey(tenant, workflow_key)
           entry     == DictGet(policy_cache, cache_key, NoCacheEntry)
           cached    == cache_key \in DictKeys(policy_cache)
           fresh     == cached /\ now - entry.timestamp < POLICY_CACHE_TTL_SECONDS
       IN  /\ policy_cache' = IF cached /\ ~fresh
                              THEN DictDel(policy_cache, cache_key) ELSE policy_cache
           /\ policy_loads' = Append(policy_loads,
                  [tenant_id |-> tenant, workflow_key |-> workflow_key,
                   cache_hit |-> fresh,
                   try       |-> IF fresh THEN 0 ELSE 1,
                   returned  |-> IF fresh THEN <<entry.policy>> ELSE <<>>])
    /\ UNCHANGED <<man_policies, wfVars, storeVars, callVars, triageVars, apiVars,
                   sagaCallVars>>

\* one turn of the lookup loop, and the default after the third: lines 426-440
LoadSelect(i) ==
    /\ i \in DOMAIN policy_loads
    /\ policy_loads[i].try \in 1..3
    /\ LET call    == policy_loads[i]
           matches == PolicyMatches(man_policies,
                                    PolicyFilters(call.tenant_id, call.workflow_key, call.try))
       IN  IF matches # {}
           THEN \E r \in matches :
                   /\ policy_cache' = set_cached_policy(policy_cache, call.tenant_id,
                                                        call.workflow_key,
                                                        man_policies[r].policy_json, now)
                   /\ policy_loads' = [policy_loads EXCEPT ![i] =
                          [call EXCEPT !.try = 0,
                                       !.returned = <<man_policies[r].policy_json>>]]
           ELSE IF call.try < 3
           THEN /\ policy_loads' = [policy_loads EXCEPT ![i].try = @ + 1]
                /\ UNCHANGED policy_cache
           ELSE /\ policy_cache' = set_cached_policy(policy_cache, call.tenant_id,
                                                     call.workflow_key,
                                                     DEFAULT_MAN_POLICY, now)
                /\ policy_loads' = [policy_loads EXCEPT ![i] =
                       [call EXCEPT !.try = 0, !.returned = <<DEFAULT_MAN_POLICY>>]]
    /\ UNCHANGED <<man_policies, wfVars, storeVars, callVars, triageVars, apiVars,
                   sagaCallVars>>

\* time.time() moves on
PolicyTick ==
    /\ now < MaxPolicyTicks * PolicyTickSeconds
    /\ now' = now + PolicyTickSeconds
    /\ UNCHANGED <<man_tasks, wfVars, callVars, triageVars, policyVars, apiVars,
                   sagaCallVars>>

PolicyInit ==
    /\ WorkflowInit
    /\ engine_policy = DEFAULT_MAN_POLICY
    /\ man_methods_on = "SagaContext"
    /\ man_tasks = <<>>
    /\ now = 0
    /\ NoCalls

PolicyNext ==
    \/ \E key \in PolicyUpsertKeys, policy \in PolicyBodies :
          upsert_man_policy(key[1], key[2], policy)
    \/ \E key \in PolicyLoadKeys : LoadBegin(key[1], key[2])
    \/ \E i \in 1..MaxPolicyLoads : LoadSelect(i)
    \/ PolicyTick

PolicySpec == PolicyInit /\ [][PolicyNext]_vars

\* the policy stored for exactly this scope, as a list of none or one
StoredPolicy(table, tenant, workflow_key) ==
    LET rows == PolicyMatchesExactScope(table, [tenant_id |-> tenant,
                                                workflow_key |-> workflow_key])
    IN  IF rows = {} THEN <<>> ELSE <<table[CHOOSE r \in rows : TRUE].policy_json>>

\* a load call was made in this step and answered from the cache
AnsweredFromCache ==
    /\ Len(policy_loads') = Len(policy_loads) + 1
    /\ policy_loads'[Len(policy_loads')].cache_hit

\* C21: a load for (tenant, workflow) that is answered while the table holds
\* a policy upserted for (tenant, workflow) returns that policy, also when
\* the answer comes from an entry cached before the upsert.  Stated for
\* loads that name both a tenant and a workflow: their first lookup is by
\* both columns, so what the cache holds for them is what an earlier load
\* found for that scope or, with no row for it, for a wider one.
C21_LoadAfterUpsertIsFresh ==
    [][AnsweredFromCache =>
          LET call   == policy_loads'[Len(policy_loads')]
              stored == StoredPolicy(man_policies, call.tenant_id, call.workflow_key)
          IN  (call.tenant_id # "" /\ call.workflow_key # "" /\ stored # <<>>)
                  => call.returned = stored]_vars

\* a load for (t1, wfA) was answered from the cache with another policy than
\* the one the table holds for (t1, wfA)
C21_Witness ==
    \E i \in DOMAIN policy_loads :
        /\ policy_loads[i].cache_hit
        /\ policy_loads[i].tenant_id = "t1"
        /\ policy_loads[i].workflow_key = "wfA"
        /\ StoredPolicy(man_policies, "t1", "wfA") # <<>>
        /\ policy_loads[i].returned # StoredPolicy(man_policies, "t1", "wfA")
        /\ policy_loads[i].returned[1] \in PolicyBodies

\* C22: on a cache miss the lookups go in the order (tenant, workflow),
\* (tenant, none), (none, none): each returns the policy stored for exactly
\* that scope when there is one and passes on when there is none, and after
\* the third the built-in default is returned; no row of another tenant or
\* another workflow is returned.
C22_LookupOrder ==
    [][\A i \in DOMAIN policy_loads :
          (policy_loads[i].try \in 1..3 /\ policy_loads'[i] # policy_loads[i]) =>
              LET call   == policy_loads[i]
                  scope  == PolicyFilters(call.tenant_id, call.workflow_key, call.try)
                  stored == StoredPolicy(man_policies, scope.tenant_id, scope.workflow_key)
              IN  IF stored # <<>>
                  THEN policy_loads'[i].returned = stored
                  ELSE IF call.try < 3
                  THEN policy_loads'[i].try = call.try + 1
                  ELSE policy_loads'[i].returned = <<DEFAULT_MAN_POLICY>>]_vars

\* a load for (t1, wfA) returned, on a miss, a policy while the table held
\* only a row of tenant t2
C22_Witness ==
    \E i \in DOMAIN policy_loads :
        /\ ~policy_loads[i].cache_hit
        /\ policy_loads[i].tenant_id = "t1"
        /\ policy_loads[i].returned # <<>>
        /\ policy_loads[i].returned[1] \in PolicyBodies
        /\ \A r \in DOMAIN man_policies : man_policies[r].tenant_id = "t2"
        /\ Len(man_policies) = 1

\* ------------------------------------------------------------------------
\* The decision endpoint: POST /api/v1/man/tasks/{task_id}/decision
\* (main.py 196-245) beside a run of a plan of one step or of two in
\* sequence.  Each request is a coroutine of its own: it looks the task up,
\* has the update handler executed in the workflow, then calls
\* resolve_man_task and answers.  Requests interleave at every await.  The
\* methods are taken to be on AgentWorkflow; with the handler on SagaContext,
\* as the file has it, execute_update finds no handler and every request is
\* answered 500.
\* ------------------------------------------------------------------------
MaxApiCalls == 2

\* the reviewer of the i-th request; it tells the requests apart
ApiReviewer(i) == IF i = 1 THEN "r1" ELSE "r2"

ApiDecisionSet(i) ==
    {ManDecisionPayload(d.decision, ApiReviewer(i), d.modified_params) : d \in DecisionSet}

\* the call of resolve_man_task made by the i-th request
ResolverOf(i) ==
    {k \in DOMAIN resolvers :
        /\ resolvers[k].task_id = api_calls[i].task_id
        /\ resolvers[k].decision_payload = api_calls[i].decision_payload}

\* main.py 205-214: select_one on man_tasks; 404 when there is no such task
ApiSelect(task, decision_payload) ==
    /\ Len(api_calls) < MaxApiCalls
    /\ decision_payload \in ApiDecisionSet(Len(api_calls) + 1)
    /\ api_calls' = Append(api_calls,
            [task_id |-> task, decision_payload |-> decision_payload,
             pc |-> IF task \in DOMAIN man_tasks THEN "update" ELSE "answered",
             response |-> IF task \in DOMAIN man_tasks THEN "" ELSE "404"])
    /\ UNCHANGED <<wfVars, storeVars, callVars, triageVars, policyVars, sagaCallVars>>

\* main.py 216-223: handle.execute_update runs submit_man_decision in the
\* workflow; a run that has ended, or a class without the handler, makes it
\* raise, and the handler of line 244 answers 500
ApiUpdate(i) ==
    /\ i \in DOMAIN api_calls
    /\ api_calls[i].pc = "update"
    /\ LET call == api_calls[i]
       IN  IF Running /\ HandlerOnWorkflow
           THEN /\ pending_man_decisions' =
                       DictSet(pending_man_decisions, call.task_id, call.decision_payload)
                /\ delivered' = delivered + 1
                /\ submitted' = Append(submitted, <<call.task_id, call.decision_payload.decision>>)
                /\ api_calls' = [api_calls EXCEPT ![i] = [call EXCEPT !.pc = "resolve"]]
           ELSE /\ api_calls' = [api_calls EXCEPT ![i] =
                                    [call EXCEPT !.pc = "answered", !.response = "500"]]
                /\ UNCHANGED <<pending_man_decisions, delivered, submitted>>
    /\ UNCHANGED <<events, planVars, dagVars, runVars, latchVars, compensation_stack,
                   spc, task_id, step_outcome, tool_calls, applied_decision,
                   engine_policy, man_methods_on, now, callVars, triageVars,
                   policyVars, sagaCallVars, man_tasks>>

\* main.py 228-235: the request calls resolve_man_task
ApiResolve(i) ==
    /\ i \in DOMAIN api_calls
    /\ api_calls[i].pc = "resolve"
    /\ ResolverOf(i) = {}
    /\ ResolveBegin(api_calls[i].task_id, api_calls[i].decision_payload)

\* activities/man_mode.py 329-346: a database call of resolve_man_task
\* raised; the row is as it was and the activity raises ApplicationError
ResolveRaise(k) ==
    /\ k \in DOMAIN resolvers
    /\ resolvers[k].pc \in {"update", "reselect"}
    /\ resolvers' = [resolvers EXCEPT ![k] = [@ EXCEPT !.pc = "raised"]]
    /\ UNCHANGED <<man_tasks, now, create_returns, sweep>>
    /\ wfFrozen

\* main.py 228-241: resolve_man_task returned, or raised and the exception
\* was logged ("Activity resolve_man_task failed, but workflow updated");
\* either way the answer is decision_submitted
ApiAnswer(i) ==
    /\ i \in DOMAIN api_calls
    /\ api_calls[i].pc = "resolve"
    /\ \E k \in ResolverOf(i) : resolvers[k].pc \in {"done", "not_found", "raised"}
    /\ api_calls' = [api_calls EXCEPT ![i] =
                        [@ EXCEPT !.pc = "answered", !.response = "decision_submitted"]]
    /\ UNCHANGED <<wfVars, storeVars, callVars, triageVars, policyVars, sagaCallVars>>

\* the steps of the run while requests arrive; no signal is sent
ApiWorkflowStep ==
    \/ RunStart
    \/ \E p \in LivePlanSet : CacheHit(p)
    \/ CacheMiss
    \/ \E p \in LivePlanSet : PlanFromLLM(p)
    \/ PlanFailed
    \/ \E s \in StepIds : StepHead(s)
    \/ \E s \in StepIds : BacklogDone(s)
    \/ \E s \in StepIds : BacklogError(s)
    \/ \E s \in StepIds : TriageError(s)
    \/ \E s \in StepIds : TriageDone(s)
    \/ \E s \in StepIds : CreateError(s)
    \/ \E s \in StepIds : CreateDone(s)
    \/ \E s \in StepIds : ManDecisionWake(s)
    \/ \E s \in StepIds : ToolFailed(s)
    \/ \E s \in StepIds : ToolSucceeded(s)
    \/ Gather
    \/ \E ok \in BOOLEAN : CompensationDone(ok)

ApiInit ==
    /\ WorkflowInit
    /\ engine_policy = DEFAULT_MAN_POLICY
    /\ man_methods_on = "AgentWorkflow"
    /\ man_tasks = <<>>
    /\ now = 0
    /\ NoCalls

ApiNext ==
    \/ ApiWorkflowStep
    \/ \E task \in 1..MaxCreateCalls, d \in ApiDecisionSet(1) \cup ApiDecisionSet(2) :
           ApiSelect(task, d)
    \/ \E i \in 1..MaxApiCalls : ApiUpdate(i)
    \/ \E i \in 1..MaxApiCalls : ApiResolve(i)
    \/ \E k \in 1..MaxResolveCalls : ResolveUpdate(k)
    \/ \E k \in 1..MaxResolveCalls : ResolveReselect(k)
    \/ \E k \in 1..MaxResolveCalls : ResolveRaise(k)
    \/ \E i \in 1..MaxApiCalls : ApiAnswer(i)

ApiSpec == ApiInit /\ [][ApiNext]_vars

\* the i-th request was answered decision_submitted
DecisionSubmitted(i) ==
    /\ i \in DOMAIN api_calls
    /\ api_calls[i].response = "decision_submitted"

ResolvedStatuses == {"APPROVED", "DENIED", "MODIFIED", "CANCELLED"}

RECURSIVE OrderableFrom(_, _)
OrderableFrom(steps, done) ==
    LET more == {steps[i].id : i \in {j \in DOMAIN steps :
                                          Range(steps[j].depends_on) \subseteq done}}
    IN  IF more = done THEN done ELSE OrderableFrom(steps, more)

\* the depends_on graph has a cycle or names a step that is not in the plan
CycleOrUnknownDependency(steps) ==
    /\ steps # <<>>
    /\ OrderableFrom(steps, {}) # PlanIds(steps)

\* the steps of the plan that registered a compensation
Compensated(steps, done) ==
    {s \in done : StepOf(steps, s).compensation # ""}

C26_DecisionIffResolved ==
    \A i \in DOMAIN man_tasks :
        IF man_tasks[i].status \in ResolvedStatuses
        THEN /\ man_tasks[i].decision # NoDecision
             /\ man_tasks[i].reviewer_id # "NULL"
             /\ man_tasks[i].status = StatusOfDecision(man_tasks[i].decision.decision)
        ELSE /\ man_tasks[i].status \in {"PENDING", "EXPIRED"}
             /\ man_tasks[i].decision = NoDecision
             /\ man_tasks[i].reviewer_id = "NULL"

\* the sweep has listed a task as expired and is about to mark it, and a
\* resolve call has resolved the task in between
C26_Witness ==
    \E i \in DOMAIN man_tasks :
        /\ sweep.pc = "mark"
        /\ sweep.expired_tasks # <<>>
        /\ Head(sweep.expired_tasks) = i
        /\ man_tasks[i].status \in ResolvedStatuses
        /\ \E k \in DOMAIN resolvers :
              resolvers[k].task_id = i /\ resolvers[k].updated

\* ------------------------------------------------------------------------
\* SagaContext on its own: agent_saga.py 100-364.  Compensations are
\* registered by execute_with_compensation and rollback is called, possibly
\* more than once and possibly while an earlier call is still running its
\* compensations.  execute_with_compensation is only called by the step
\* coroutines, all of which have returned when run calls rollback (lines
\* 623-637), so nothing is registered once rollback has been called.
\* ------------------------------------------------------------------------
MaxRollbackCalls == 3

SagaSteps ==
    {PlanFork[1], PlanFork[2], PlanFork[3],
     Step("c", "delete_record", <<<<"id", "42">>>>, <<>>, "undo_delete", <<>>)}

sagaRest == <<events, plan_id, plan_steps, step_results, failed_step_id,
              workflow_paused, workflow_cancelled, force_man_mode_all,
              force_man_mode_steps, pending_man_decisions, wpc, ready_queue,
              in_degree, executed, level, rb_done, compensation_results,
              workflow_result, spc, task_id, step_outcome, tool_calls, step_level,
              applied_decision, delivered, submitted, engine_policy, man_methods_on,
              storeVars, callVars, triageVars, policyVars, apiVars>>

\* a rollback that runs whatever the latch says
NeverRolledBack(latch) == FALSE

\* rollback, line 329: if self.rollback_executed
AlreadyRolledBack(latch) == latch

\* a rollback that gives up at the first compensation that fails
RollbackStopsOnFailure(ok) == ok

\* rollback, lines 357-362: the except branch records the failure and the
\* for loop goes on
RollbackGoesOn(ok) == TRUE

\* execute_with_compensation: lines 118-166, the activity having succeeded
\* (a failed activity raises at once and registers nothing)
SagaExecute(step) ==
    /\ ~rollback_executed
    /\ \A i \in DOMAIN compensation_stack : compensation_stack[i].step_id # step.id
    /\ compensation_stack' = RegisterCompensation(compensation_stack, step, ToolResult(step.tool))
    /\ UNCHANGED <<rollback_executed, comp_calls, rollback_returns, sagaRest>>

\* rollback up to its first compensation activity: lines 329-352
SagaRollback ==
    /\ Len(rollback_returns) < MaxRollbackCalls
    /\ IF AlreadyRolledBack(rollback_executed)
       THEN /\ rollback_returns' = Append(rollback_returns,
                                          [pc |-> "returned", results |-> <<>>])
            /\ UNCHANGED <<rollback_executed, comp_calls>>
       ELSE /\ rollback_executed' = TRUE
            /\ IF compensation_stack = <<>>
               THEN /\ rollback_returns' = Append(rollback_returns,
                                                  [pc |-> "returned", results |-> <<>>])
                    /\ UNCHANGED comp_calls
               ELSE /\ rollback_returns' = Append(rollback_returns,
                                                  [pc |-> "run", results |-> <<>>])
                    /\ comp_calls' = Append(comp_calls,
                                            RollbackOrder(compensation_stack)[1].step_id)
    /\ UNCHANGED <<compensation_stack, sagaRest>>

\* the compensation activity a rollback call waits for returned (ok) or
\* raised: lines 346-364
SagaCompensationDone(i, ok) ==
    /\ i \in DOMAIN rollback_returns
    /\ rollback_returns[i].pc = "run"
    /\ LET order   == RollbackOrder(compensation_stack)
           done    == Len(rollback_returns[i].results)
           results == Append(rollback_returns[i].results,
                             [step_id |-> order[done + 1].step_id, success |-> ok])
       IN  IF RollbackGoesOn(ok) /\ done + 1 < Len(order)
           THEN /\ rollback_returns' = [rollback_returns EXCEPT ![i].results = results]
                /\ comp_calls' = Append(comp_calls, order[done + 2].step_id)
           ELSE /\ rollback_returns' = [rollback_returns EXCEPT
                                            ![i] = [pc |-> "returned", results |-> results]]
                /\ UNCHANGED comp_calls
    /\ UNCHANGED <<compensation_stack, rollback_executed, sagaRest>>

SagaInit ==
    /\ WorkflowInit
    /\ engine_policy = DEFAULT_MAN_POLICY
    /\ man_methods_on = "SagaContext"
    /\ man_tasks = <<>>
    /\ now = 0
    /\ NoCalls

SagaNext ==
    \/ \E step \in SagaSteps : SagaExecute(step)
    \/ SagaRollback
    \/ \E i \in 1..MaxRollbackCalls, ok \in BOOLEAN : SagaCompensationDone(i, ok)

SagaSpec == SagaInit /\ [][SagaNext]_vars

\* C27: once rollback has been called, a further call of rollback starts no
\* compensation activity and returns an empty list.
C27_RollbackIdempotent ==
    [][(Len(rollback_returns) >= 1 /\ Len(rollback_returns') = Len(rollback_returns) + 1)
          => /\ rollback_returns'[Len(rollback_returns')] = [pc |-> "returned", results |-> <<>>]
             /\ comp_calls' = comp_calls]_vars

\* a first rollback ran two compensations or more and a second call has
\* returned while the stack still holds them
C27_Witness ==
    /\ Len(rollback_returns) >= 2
    /\ Len(rollback_returns[1].results) >= 2
    /\ rollback_returns[2] = [pc |-> "returned", results |-> <<>>]
    /\ Len(compensation_stack) >= 2

\* the step ids of a sequence of compensations or of results
StepIdsOf(seq) == [i \in DOMAIN seq |-> seq[i].step_id]

\* C28: a rollback that has returned after running compensations has started
\* every registered compensation, whether or not an earlier one failed, and
\* its result holds one entry per registered compensation, with the
\* compensation's step_id and a success flag.
C28_FailureDoesNotStopRollback ==
    \A i \in DOMAIN rollback_returns :
        (rollback_returns[i].pc = "returned" /\ rollback_returns[i].results # <<>>)
        => /\ StepIdsOf(rollback_returns[i].results)
                 = StepIdsOf(RollbackOrder(compensation_stack))
           /\ comp_calls = StepIdsOf(RollbackOrder(compensation_stack))
           /\ \A j \in DOMAIN rollback_returns[i].results :
                 rollback_returns[i].results[j].success \in BOOLEAN

\* a rollback returned three results of which the first is a failure and a
\* later one a success
C28_Witness ==
    \E i \in DOMAIN rollback_returns :
        /\ rollback_returns[i].pc = "returned"
        /\ Len(rollback_returns[i].results) = 3
        /\ ~rollback_returns[i].results[1].success
        /\ rollback_returns[i].results[3].success

\* ------------------------------------------------------------------------
\* Forced approval and the join of a frontier
\* ------------------------------------------------------------------------
\* approval is forced for the step
Forced(s) == force_man_mode_all \/ s \in force_man_mode_steps

\* the lane triage gives the step when nothing is forced
UnforcedLane(s) ==
    triage_intent(engine_policy, StepIntent(s), get_workflow_key, <<>>).lane

OnStack(stack, s) == \E i \in DOMAIN stack : stack[i].step_id = s

ToolFailureEvents ==
    SelectSeq(events, LAMBDA e : e.type = "ToolResultReceived" /\ ~e.success)

\* every failed step of the current frontier failed in its tool, so that the
\* log holds the failures of the frontier in the order of their occurrence
FrontierFailedInTools ==
    \A s \in Range(ready_queue) : spc[s] = "failed" => step_outcome[s] = "ActivityError"

\* the failed run reports self.failed_step_id in its result and in its
\* WorkflowFailed event
ReportsFailedStep ==
    wpc = "failed" =>
        /\ workflow_result.failed_step_id = failed_step_id
        /\ events[Len(events)].type = "WorkflowFailed"
        /\ events[Len(events)].step_id = failed_step_id

EventsAt(type, s) ==
    {i \in DOMAIN events : events[i].type = type /\ events[i].step_id = s}

\* the tool activity of step s returns or raises in this step
ToolEnds(s) == spc[s] = "tool" /\ spc'[s] \in {"done", "failed"}

ExpiredRows == {i \in DOMAIN man_tasks : man_tasks[i].status = "EXPIRED"}

\* C35: a row becomes EXPIRED only from PENDING and only when it is older
\* than its tenant's TTL, its other columns and every other row staying as
\* they were; and the number cleanup_expired_tasks returns is the number of
\* rows it set to EXPIRED.
C35_SweepExpiresAndCounts ==
    /\ [][\A i \in DOMAIN man_tasks :
             (man_tasks'[i].status = "EXPIRED" /\ man_tasks[i].status # "EXPIRED") =>
                 /\ man_tasks[i].status = "PENDING"
                 /\ now - man_tasks[i].created_at > TtlSeconds(man_tasks[i].tenant_id)
                 /\ man_tasks'[i] = [man_tasks[i] EXCEPT !.status = "EXPIRED"]
                 /\ \A j \in DOMAIN man_tasks : j # i => man_tasks'[j] = man_tasks[j]]_vars
    /\ [](sweep.returned > 0 => sweep.returned - 1 = Cardinality(ExpiredRows))

\* the sweep has returned after a resolve call resolved a task the sweep had
\* listed, and another task was set to EXPIRED
C35_Witness ==
    /\ sweep.returned > 0
    /\ ExpiredRows # {}
    /\ \E k \in DOMAIN resolvers :
          /\ resolvers[k].updated
          /\ now - man_tasks[resolvers[k].task_id].created_at
                > TtlSeconds(man_tasks[resolvers[k].task_id].tenant_id)


\* ------------------------------------------------------------------------
\* Which policy gates a step: the operators' policy table beside the gate
\* activities (GovernSpec)
\* ------------------------------------------------------------------------
MaxBacklogCalls == 2

\* the intents of the gated steps, all of tenant t1
GovernIntents ==
    {ActionIntent("t1", "wf1", "run1", "a", tool, <<<<"to", "ops">>>>, NoFlags) :
        tool \in {"send_email", "read_file"}}

\* the scopes operators write policies for: the steps' workflow and tenant
GovernUpsertKeys == {<<"t1", CarefulKey>>, <<"t1", "">>}

\* policies that gate differently from the default one
GovernBodies ==
    {StrictBacklogPolicy("FORCE_PAUSE"),
     [DEFAULT_MAN_POLICY EXCEPT !.tool_minimum_lanes = <<<<"send_email", "RED">>>>]}

\* activities/man_mode.py 374-421: the activity takes the policy of the
\* module's engine, counts the tenant's PENDING rows and answers
BacklogCheckCall(tenant, workflow_key) ==
    /\ Len(backlog_calls) < MaxBacklogCalls
    /\ backlog_calls' = Append(backlog_calls,
                               [tenant_id    |-> tenant,
                                workflow_key |-> workflow_key,
                                policy       |-> engine_policy,
                                result       |-> backlog_check(man_tasks, engine_policy,
                                                               tenant)])
    /\ UNCHANGED <<triage_calls, wfVars, storeVars, callVars, policyVars, apiVars,
                   sagaCallVars>>

\* PUT /api/v1/man/policies, called before the clock's first tick: from
\* time 30 on every row of the table is at least 30 seconds old
EarlyUpsert(tenant, workflow_key, policy) ==
    /\ now = 0
    /\ upsert_man_policy(tenant, workflow_key, policy)

GovernInit ==
    /\ WorkflowInit
    /\ engine_policy = DEFAULT_MAN_POLICY
    /\ man_methods_on = "AgentWorkflow"
    /\ man_tasks = <<>>
    /\ now = 0
    /\ NoCalls

GovernNext ==
    \/ \E key \in GovernUpsertKeys, policy \in GovernBodies :
          EarlyUpsert(key[1], key[2], policy)
    \/ PolicyTick
    \/ \E intent \in GovernIntents : CreateCall(intent)
    \/ \E intent \in GovernIntents : risk_triage(intent, CarefulKey, <<>>)
    \/ BacklogCheckCall("t1", CarefulKey)

GovernSpec == GovernInit /\ [][GovernNext]_vars

\* the cache holds an entry for the scope that is younger than its TTL
CacheEntryFresh(tenant, workflow_key) ==
    LET cache_key == CacheKey(tenant, workflow_key)
    IN  /\ cache_key \in DictKeys(policy_cache)
        /\ now - DictGet(policy_cache, cache_key, NoCacheEntry).timestamp
               < POLICY_CACHE_TTL_SECONDS

\* the policy an operator stored for exactly this scope is in force: it has
\* been in the table for 30 seconds and no younger cache entry can stand in
\* for it
InForce(tenant, workflow_key) ==
    IF now < POLICY_CACHE_TTL_SECONDS \/ CacheEntryFresh(tenant, workflow_key)
    THEN <<>>
    ELSE StoredPolicy(man_policies, tenant, workflow_key)

\* C36: a backlog check or a triage made for a step while a policy stored
\* for the step's tenant and workflow is in force (the table has held it
\* for 30 seconds and no younger cache entry stands in for it) answers as that
\* policy prescribes: the overload verdict and action follow its
\* max_pending_per_tenant and degrade_behavior, the lane and score follow
\* its thresholds and tool minimum lanes
C36_StoredPolicyGoverns ==
    [][/\ Len(triage_calls') = Len(triage_calls) + 1 =>
            LET call   == triage_calls'[Len(triage_calls')]
                stored == InForce(call.intent.tenant_id, call.workflow_key)
            IN  stored # <<>> =>
                    call.result = triage_intent(stored[1], call.intent,
                                                call.workflow_key,
                                                call.free_text_signals)
       /\ Len(backlog_calls') = Len(backlog_calls) + 1 =>
            LET call   == backlog_calls'[Len(backlog_calls')]
                stored == InForce(call.tenant_id, call.workflow_key)
            IN  stored # <<>> =>
                    call.result = backlog_check(man_tasks, stored[1], call.tenant_id)]_vars

\* a step of tenant t1 was gated 30 seconds after its workflow's policy was
\* stored, with one task pending: the check and the triage both answered
\* from the built-in default
C36_Witness ==
    /\ now >= POLICY_CACHE_TTL_SECONDS
    /\ StoredPolicy(man_policies, "t1", CarefulKey) = <<StrictBacklogPolicy("FORCE_PAUSE")>>
    /\ \E i \in DOMAIN backlog_calls :
          /\ backlog_calls[i].result.pending_count >= 1
          /\ ~backlog_calls[i].result.overloaded
    /\ \E i \in DOMAIN triage_calls : triage_calls[i].policy = DEFAULT_MAN_POLICY


\* ------------------------------------------------------------------------
\* Redaction of tool parameters on the way to the gate (RedactSpec)
\* ------------------------------------------------------------------------
\* keys as a planner may spell them, four of them sensitive by a name they
\* contain, and values of which one would raise the subjectivity score
RedactKeys == {"api_key", "API_KEY", "Password", "auth_token", "monkey", "to"}

RedactValues == {"hunter2", "urgent"}

\* tool_params as the caller passes them to ActionIntent(...)
RawParamSet == {<<<<"id", "42">>, <<k, val>>>> : k \in RedactKeys, val \in RedactValues}

RawIntent(raw) == ActionIntent("t1", "wf1", "run1", "a", "delete_record", raw, StoreFlags)

RedactInit ==
    /\ WorkflowInit
    /\ engine_policy = DEFAULT_MAN_POLICY
    /\ man_methods_on = "AgentWorkflow"
    /\ man_tasks = <<>>
    /\ now = 0
    /\ NoCalls

RedactNext ==
    \/ \E raw \in RawParamSet : risk_triage(RawIntent(raw), "", <<>>)
    \/ \E raw \in RawParamSet : CreateCall(RawIntent(raw))

RedactSpec == RedactInit /\ [][RedactNext]_vars

\* the lower-cased key contains one of the six names
SensitiveKey(k) ==
    LET lowered == Lower(k)
    IN  \/ Contains(lowered, "password")
        \/ Contains(lowered, "token")
        \/ Contains(lowered, "secret")
        \/ Contains(lowered, "key")
        \/ Contains(lowered, "api_key")
        \/ Contains(lowered, "auth")

Redacted(params) ==
    \A i \in DOMAIN params : SensitiveKey(params[i][1]) => params[i][2] = "[REDACTED]"

\* the same keys in the same order, and the same values under every key
\* that is not sensitive
DifferOnlyInSensitiveValues(p, q) ==
    /\ Len(p) = Len(q)
    /\ \A i \in DOMAIN p :
          /\ p[i][1] = q[i][1]
          /\ ~SensitiveKey(p[i][1]) => p[i][2] = q[i][2]

\* C37: in every intent that reached triage or create_man_task, and in every
\* stored task, each tool_params entry whose lower-cased key contains
\* password, token, secret, key, api_key or auth holds "[REDACTED]"; and for
\* two parameter dicts that differ only in the values of such entries, the
\* triage results are equal, the idempotency keys are equal and the intent
\* stored with the task is equal
C37_SensitiveValuesRedacted ==
    /\ \A i \in DOMAIN triage_calls : Redacted(triage_calls[i].intent.tool_params)
    /\ \A i \in DOMAIN create_returns : Redacted(create_returns[i].intent.tool_params)
    /\ \A i \in DOMAIN man_tasks : Redacted(man_tasks[i].intent)
    /\ \A p, q \in RawParamSet :
          DifferOnlyInSensitiveValues(p, q) =>
            LET built_p == RawIntent(p)
                built_q == RawIntent(q)
            IN
              /\ \A i, j \in DOMAIN triage_calls :
                    (/\ triage_calls[i].intent = built_p
                     /\ triage_calls[j].intent = built_q)
                        => triage_calls[i].result = triage_calls[j].result
              /\ \A i, j \in DOMAIN create_returns :
                    (/\ create_returns[i].intent = built_p
                     /\ create_returns[j].intent = built_q)
                        => /\ create_returns[i].idempotency_key
                                  = create_returns[j].idempotency_key
                           /\ create_returns[i].created_task.intent
                                  = create_returns[j].created_task.intent
                           /\ create_returns[i].created_task.id
                                  = create_returns[j].created_task.id

\* an intent given auth_token = "urgent" and one given auth_token = "hunter2"
\* were both triaged and both handed to create_man_task: one task is stored
C37_Witness ==
    LET p == <<<<"id", "42">>, <<"auth_token", "urgent">>>>
        q == <<<<"id", "42">>, <<"auth_token", "hunter2">>>>
    IN  /\ Len(triage_calls) = 2
        /\ triage_calls[1].intent = RawIntent(p)
        /\ triage_calls[2].intent = RawIntent(q)
        /\ Len(create_returns) = 2
        /\ create_returns[1].intent = RawIntent(p)
        /\ create_returns[2].intent = RawIntent(q)
        /\ Len(man_tasks) = 1
        /\ man_tasks[1].intent = <<<<"id", "42">>, <<"auth_token", "[REDACTED]">>>>


\* the tool events of the log
ToolEvents ==
    SelectSeq(events, LAMBDA e : e.type \in {"ToolCallRequested", "ToolResultReceived"})

\* the step coroutine is between its launch and its return or exception
InFlight(s) == spc[s] \notin {"idle", "done", "failed"}

TerminalEvents ==
    {i \in DOMAIN events : events[i].type \in {"WorkflowCompleted", "WorkflowFailed"}}

ForkStep ==
    \/ RunStart
    \/ CacheHit(PlanFork)
    \/ CacheMiss
    \/ PlanFromLLM(PlanFork)
    \/ PlanFailed
    \/ \E s \in StepIds : StepHead(s)
    \/ \E s \in StepIds : PauseWake(s)
    \/ \E s \in StepIds : BacklogDone(s)
    \/ \E s \in StepIds : BacklogError(s)
    \/ \E s \in StepIds : TriageError(s)
    \/ \E s \in StepIds : TriageDone(s)
    \/ \E s \in StepIds : CreateError(s)
    \/ \E s \in StepIds : CreateDone(s)
    \/ \E s \in StepIds : ManDecisionWake(s)
    \/ \E s \in StepIds : ToolFailed(s)
    \/ \E s \in StepIds : ToolSucceeded(s)
    \/ Gather
    \/ \E ok \in BOOLEAN : CompensationDone(ok)

ForkNext == ForkStep \/ Delivery

ForkSpec == LiveInit /\ [][ForkNext]_vars /\ WF_vars(ForkStep)

\* a step of the frontier the run is joining has failed
FrontierStepFailed == wpc = "exec" /\ \E s \in Range(ready_queue) : spc[s] = "failed"

\* the step is suspended in a wait_condition whose condition is false: the
\* pause waits of lines 698 and 732 and the approval wait of line 235
WaitsForOperator(s) ==
    \/ spc[s] \in {"pause_wait", "force_pause_wait"} /\ workflow_paused
    \/ spc[s] = "await_man" /\ task_id[s] \notin DictKeys(pending_man_decisions)

====
